---- MODULE Spec2Model ----
(***************************************************************************)
(* A model of confuse_jsonschema: the $ref resolver                        *)
(* (confuse_jsonschema/resolver.py, class SchemaResolver) and the          *)
(* combinator templates (confuse_jsonschema/templates.py).                 *)
(*                                                                         *)
(* Python strings are sequences of one-character strings, so that          *)
(* splitting, unescaping and integer parsing are computed, character by    *)
(* character, the way the code computes them.  JSON values are tagged      *)
(* records; a dict is the sequence of its <<key, value>> items in          *)
(* insertion order, which is the order the code iterates it in.            *)
(*                                                                         *)
(* A record lists its fields in the order in which the field names first   *)
(* appear in this module, which is the order TLC keeps them in.            *)
(***************************************************************************)
EXTENDS Integers, Sequences, FiniteSets, TLC

VARIABLES root_schema, resolution_stack, resolved_cache, last,
          FORMAT_VALIDATORS, threads

vars == <<root_schema, resolution_stack, resolved_cache, last,
          FORMAT_VALIDATORS, threads>>

(***************************************************************************)
(* Bounds of the model.                                                    *)
(***************************************************************************)
\* The interpreter's recursion limit, counted in frames of resolve_ref and
\* _resolve_nested_refs: a call that would go deeper raises RecursionError.
\* The deepest call that ends by itself on a document of Docs is 10 frames
\* deep (DocCycles, from y round the cycle z, x, y back to z).
MaxDepth == 12

(***************************************************************************)
(* The registry of format validators (confuse_jsonschema/formats.py) as    *)
(* the module leaves it once imported: each built-in format name under its *)
(* validator function.                                                     *)
(***************************************************************************)
BuiltinFormats ==
    [name \in {"email", "date", "date-time", "uri", "uuid", "ipv4", "ipv6"} |->
        CASE name = "email" -> "validate_email"
          [] name = "date" -> "validate_date"
          [] name = "date-time" -> "validate_date_time"
          [] name = "uri" -> "validate_uri"
          [] name = "uuid" -> "validate_uuid"
          [] name = "ipv4" -> "validate_ipv4"
          [] name = "ipv6" -> "validate_ipv6"]

\* no thread is evaluating
NoThreads == <<>>

(***************************************************************************)
(* JSON values.                                                            *)
(***************************************************************************)
JObj(kv) == [kv |-> kv, t |-> "obj"]
JArr(items) == [t |-> "arr", items |-> items]
JStr(s) == [t |-> "str", s |-> s]
JNum(n) == [t |-> "num", n |-> n]
JNull == [t |-> "null"]

IsDict(v) == v.t = "obj"
IsList(v) == v.t = "arr"

\* key in d
DictHas(d, key) == \E i \in 1..Len(d.kv) : d.kv[i][1] = key

\* d[key]
DictGet(d, key) == d.kv[CHOOSE i \in 1..Len(d.kv) : d.kv[i][1] = key][2]

\* d[key] = value: an existing key keeps its place, a new key goes last
DictSet(d, key, value) ==
    IF DictHas(d, key)
    THEN JObj([i \in 1..Len(d.kv) |->
                 IF d.kv[i][1] = key THEN <<key, value>> ELSE d.kv[i]])
    ELSE JObj(Append(d.kv, <<key, value>>))

DictKeys(d) == {d.kv[i][1] : i \in 1..Len(d.kv)}

\* a == b on JSON values: dicts compare as mappings, whatever their order
RECURSIVE JEq(_, _)
JEq(a, b) ==
    IF a.t # b.t THEN FALSE
    ELSE IF a.t = "obj"
         THEN /\ DictKeys(a) = DictKeys(b)
              /\ \A k \in DictKeys(a) : JEq(DictGet(a, k), DictGet(b, k))
    ELSE IF a.t = "arr"
         THEN /\ Len(a.items) = Len(b.items)
              /\ \A i \in 1..Len(a.items) : JEq(a.items[i], b.items[i])
    ELSE a = b

(***************************************************************************)
(* Python string helpers.                                                  *)
(***************************************************************************)
Contains(seq, x) == \E i \in 1..Len(seq) : seq[i] = x

\* position of the first c in s, 0 when there is none
FirstIndex(s, c) ==
    IF Contains(s, c) THEN CHOOSE i \in 1..Len(s) :
                              s[i] = c /\ \A j \in 1..(i - 1) : s[j] # c
    ELSE 0

\* s.startswith("/")
StartsWithSlash(s) == Len(s) > 0 /\ s[1] = "/"

\* s.split(c)
RECURSIVE Split(_, _)
Split(s, c) ==
    LET i == FirstIndex(s, c) IN
    IF i = 0 THEN <<s>>
    ELSE <<SubSeq(s, 1, i - 1)>> \o Split(SubSeq(s, i + 1, Len(s)), c)

\* s.replace(a + b, r), for a pattern of two characters
RECURSIVE Replace2(_, _, _, _)
Replace2(s, a, b, r) ==
    IF Len(s) < 2 THEN s
    ELSE IF s[1] = a /\ s[2] = b
         THEN <<r>> \o Replace2(SubSeq(s, 3, Len(s)), a, b, r)
         ELSE <<s[1]>> \o Replace2(Tail(s), a, b, r)

Digits == <<"0", "1", "2", "3", "4", "5", "6", "7", "8", "9">>

IsDigit(c) == Contains(Digits, c)

DigitVal(c) == (CHOOSE i \in 1..10 : Digits[i] = c) - 1

RECURSIVE DigitsVal(_, _)
DigitsVal(s, acc) ==
    IF s = <<>> THEN acc ELSE DigitsVal(Tail(s), acc * 10 + DigitVal(Head(s)))

\* int(segment): an optional sign and decimal digits.  (Python's int() also
\* takes surrounding blanks and single underscores between digits; no pointer
\* of the model holds them.)  ok = FALSE is the "invalid literal" ValueError.
ParseInt(s) ==
    LET signed == Len(s) > 0 /\ s[1] \in {"+", "-"}
        body == IF signed THEN Tail(s) ELSE s
        good == Len(body) > 0 /\ \A i \in 1..Len(body) : IsDigit(body[i])
    IN IF ~good THEN [n |-> 0, ok |-> FALSE]
       ELSE [n |-> IF signed /\ s[1] = "-" THEN 0 - DigitsVal(body, 0)
                   ELSE DigitsVal(body, 0),
             ok |-> TRUE]

\* urllib.parse.urldefrag(url): the part before the first '#' and the
\* fragment after it; a url without '#' has an empty fragment.
urldefrag(url) ==
    LET i == FirstIndex(url, "#") IN
    IF i = 0 THEN [uri |-> url, fragment |-> <<>>]
    ELSE [uri |-> SubSeq(url, 1, i - 1),
          fragment |-> SubSeq(url, i + 1, Len(url))]

(***************************************************************************)
(* The resolver's state and the outcome of a call.                         *)
(*                                                                         *)
(* st = [root, stack, cache] is the SchemaResolver instance: root_schema,  *)
(* resolution_stack and _resolved_cache.  A cache entry is [val, oid]: the *)
(* node and the identity of the Python object that holds it, since the     *)
(* cache, the root document and a caller may hold one and the same object. *)
(* Identity is tracked for the top-level object of a result, which is the  *)
(* only object the resolver ever assigns a key of.                         *)
(*                                                                         *)
(* An outcome is [kind, val, oid, err, st, log]: kind is "ok" or the class *)
(* of the exception that left the call, st the resolver's state after the  *)
(* call, and log the events of the call in order (a ghost: the code keeps  *)
(* no log), each with the resolution stack as it was at the event.         *)
(***************************************************************************)
OidRoot == <<"root">>          \* the root document object itself
OidSub == <<"sub">>            \* an object nested inside another one
OidFresh == <<"fresh">>        \* an object built by this call, held by no one else
OidCached(uri) == <<"cached">> \o uri   \* the object first cached under uri

NoErr == [code |-> "", path |-> <<>>]

Err(code, path) == [code |-> code, path |-> path]

Ev(ev, uri, stack) == [uri |-> uri, ev |-> ev, stack |-> stack]

Ok(val, oid, st, log) ==
    [val |-> val, oid |-> oid, st |-> st, log |-> log, kind |-> "ok",
     err |-> NoErr]

Raise(kind, err, st, log) ==
    [val |-> JNull, oid |-> OidFresh, st |-> st, log |-> log, kind |-> kind,
     err |-> err]

\* the events of an outcome, after those of what ran before it
After(log, o) == [o EXCEPT !.log = log \o @]

EmptyCache == [u \in {} |-> [val |-> JNull, oid |-> OidFresh]]

(***************************************************************************)
(* SchemaResolver._resolve_json_pointer                                    *)
(***************************************************************************)
\* segment.replace("~1", "/").replace("~0", "~")
Unescape(segment) == Replace2(Replace2(segment, "~", "1", "/"), "~", "0", "~")

PointerError(code) ==
    [val |-> JNull, kind |-> "ValueError", err |-> Err(code, <<>>)]

\* the loop over the segments
RECURSIVE WalkSegments(_, _)
WalkSegments(segments, current) ==
    IF segments = <<>>
    THEN [val |-> current, kind |-> "ok", err |-> NoErr]
    ELSE LET segment == Unescape(Head(segments)) IN
         IF IsDict(current)
         THEN IF ~DictHas(current, segment)
              THEN PointerError("KeyNotFound")
              ELSE WalkSegments(Tail(segments), DictGet(current, segment))
         ELSE IF IsList(current)
         THEN LET index == ParseInt(segment) IN
              IF ~index.ok THEN PointerError("InvalidIndex")
              ELSE IF index.n < 0 \/ index.n >= Len(current.items)
                   THEN PointerError("IndexOutOfBounds")
                   ELSE WalkSegments(Tail(segments),
                                     current.items[index.n + 1])
         ELSE PointerError("NotContainer")

resolve_json_pointer(pointer, document) ==
    IF ~StartsWithSlash(pointer) THEN PointerError("InvalidPointer")
    ELSE IF pointer = <<"/">>
         THEN [val |-> document, kind |-> "ok", err |-> NoErr]
         ELSE WalkSegments(Split(Tail(pointer), "/"), document)

(***************************************************************************)
(* SchemaResolver.resolve_ref and SchemaResolver._resolve_nested_refs      *)
(***************************************************************************)
REF == <<"$", "r", "e", "f">>

\* ref_uri in self.resolution_stack
IsCircular(ref_uri, stack) == Contains(stack, ref_uri)

\* self.resolution_stack.append(ref_uri)
PushStack(stack, ref_uri) == Append(stack, ref_uri)

\* a resolver that pops after the try block instead of in a finally clause:
\* an exception leaves the URI on the stack
PopStackNoFinally(stack, raised) ==
    IF raised THEN stack ELSE SubSeq(stack, 1, Len(stack) - 1)

\* the finally clause: self.resolution_stack.pop(), whether or not the try
\* block raised (raised says which; the code does not look at it)
PopStack(stack, raised) == SubSeq(stack, 1, Len(stack) - 1)

\* a resolver that forgets to cache
CacheStoreNothing(cache, ref_uri, entry) == cache

\* a resolver that files the entry under the document part of the URI
\* instead of the whole URI
CacheStoreByUrl(cache, ref_uri, entry) ==
    [u \in DOMAIN cache \cup {urldefrag(ref_uri).uri} |->
        IF u = urldefrag(ref_uri).uri THEN entry ELSE cache[u]]

\* self._resolved_cache[ref_uri] = resolved
CacheStore(cache, ref_uri, entry) ==
    [u \in DOMAIN cache \cup {ref_uri} |->
        IF u = ref_uri THEN entry ELSE cache[u]]

\* the object resolve_ref returns and caches: an object held by no one else
\* is from now on the object cached under ref_uri
CachedEntry(ref_uri, val, oid) ==
    [val |-> val, oid |-> IF oid = OidFresh THEN OidCached(ref_uri) ELSE oid]

\* merged_schema = resolved_schema, without the copy: the very object that
\* resolve_ref returned
NoCopy(entry) == entry

\* copy.deepcopy(resolved_schema): an equal value in an object of its own
DeepCopy(entry) == [val |-> entry.val, oid |-> OidFresh]

\* merged_schema[key] = value on the object target = [val, oid], in state st.
\* A dict takes the key; the write is seen through every holder of the same
\* object.  A list or a scalar raises TypeError and nothing is written.
SetItem(target, key, value, st) ==
    IF ~IsDict(target.val)
    THEN [st |-> st, kind |-> "TypeError", target |-> target]
    ELSE LET new == DictSet(target.val, key, value) IN
         [st |-> IF target.oid \in {OidFresh, OidSub} THEN st
                 ELSE [st EXCEPT
                        !.root = IF target.oid = OidRoot THEN new ELSE @,
                        !.cache = [u \in DOMAIN st.cache |->
                                     IF st.cache[u].oid = target.oid
                                     THEN [val |-> new, oid |-> target.oid]
                                     ELSE st.cache[u]]],
          kind |-> "ok",
          target |-> [val |-> new, oid |-> target.oid]]

\* for key, value in schema.items(): if key != "$ref": merged_schema[key] = value
RECURSIVE Overlay(_, _, _)
Overlay(items, target, st) ==
    IF items = <<>> THEN [st |-> st, kind |-> "ok", target |-> target]
    ELSE IF items[1][1] = REF THEN Overlay(Tail(items), target, st)
    ELSE LET w == SetItem(target, items[1][1], items[1][2], st) IN
         IF w.kind # "ok" THEN w ELSE Overlay(Tail(items), w.target, w.st)

RECURSIVE resolve_ref(_, _, _)
RECURSIVE resolve_nested_refs(_, _, _)
RECURSIVE NestedItems(_, _, _, _)
RECURSIVE NestedList(_, _, _, _)

\* lines 82-84: cache the resolved schema and return it
StoreAndReturn(ref_uri, val, oid, st, log) ==
    Ok(CachedEntry(ref_uri, val, oid).val, CachedEntry(ref_uri, val, oid).oid,
       [st EXCEPT !.cache = CacheStore(@, ref_uri,
                                       CachedEntry(ref_uri, val, oid))],
       log \o <<Ev("store", ref_uri, st.stack)>>)

\* lines 76-84: r is the outcome of the nested resolution; the finally clause
\* pops the stack, then the result is cached or the exception goes on
AfterNested(ref_uri, push, r) ==
    IF r.kind # "ok"
    THEN Raise(r.kind, r.err,
               [r.st EXCEPT !.stack = PopStack(@, TRUE)], push \o r.log)
    ELSE StoreAndReturn(ref_uri, r.val, r.oid,
                        [r.st EXCEPT !.stack = PopStack(@, FALSE)],
                        push \o r.log)

\* lines 70-80: the try block, entered with ref_uri pushed, and its finally;
\* walk is the outcome of the pointer walk
TryBlock(ref_uri, pushed, push, walk, d) ==
    IF walk.kind # "ok"
    THEN Raise(walk.kind, walk.err,
               [pushed EXCEPT !.stack = PopStack(@, TRUE)], push)
    ELSE AfterNested(ref_uri, push,
                     resolve_nested_refs(walk.val, pushed, d + 1))

\* lines 52-84: resolve_ref once the cache and the cycle test let the call
\* through; parts is urldefrag(ref_uri)
ResolveUncached(ref_uri, parts, st, d) ==
    IF parts.uri # <<>>
    THEN Raise("ValueError", Err("UnsupportedReference", <<>>), st, <<>>)
    ELSE IF parts.fragment = <<>>
    THEN StoreAndReturn(ref_uri, st.root, OidRoot, st, <<>>)
    ELSE IF ~StartsWithSlash(parts.fragment)
    THEN Raise("ValueError", Err("InvalidPointer", <<>>), st, <<>>)
    ELSE TryBlock(ref_uri,
                  [st EXCEPT !.stack = PushStack(@, ref_uri)],
                  <<Ev("push", ref_uri, PushStack(st.stack, ref_uri)),
                    Ev("walk", ref_uri, PushStack(st.stack, ref_uri))>>,
                  resolve_json_pointer(parts.fragment, st.root), d)

\* the call's events between its entry and its exit
Bracket(ref_uri, st, o) ==
    [o EXCEPT !.log = <<Ev("enter", ref_uri, st.stack)>> \o @
                         \o <<Ev("exit", ref_uri, o.st.stack)>>]

resolve_ref(ref_uri, st, d) ==
    IF d > MaxDepth
    THEN Raise("RecursionError", Err("RecursionError", <<>>), st, <<>>)
    ELSE Bracket(ref_uri, st,
           IF ref_uri \in DOMAIN st.cache
           THEN Ok(st.cache[ref_uri].val, st.cache[ref_uri].oid, st,
                   <<Ev("hit", ref_uri, st.stack)>>)
           ELSE IF IsCircular(ref_uri, st.stack)
           THEN Raise("ValueError",
                      Err("CircularReference", st.stack \o <<ref_uri>>),
                      st, <<Ev("check", ref_uri, st.stack)>>)
           ELSE After(<<Ev("check", ref_uri, st.stack)>>,
                      ResolveUncached(ref_uri, urldefrag(ref_uri), st, d)))

\* lines 164: m the outcome of the overlay
AfterOverlay(m, log, d) ==
    IF m.kind # "ok" THEN Raise(m.kind, Err(m.kind, <<>>), m.st, log)
    ELSE After(log, resolve_nested_refs(m.target.val, m.st, d + 1))

\* lines 155-166: r the outcome of resolve_ref(schema["$ref"])
AfterRef(schema, r, d) ==
    IF r.kind # "ok" THEN r
    ELSE IF Len(schema.kv) > 1
    THEN AfterOverlay(Overlay(schema.kv,
                              DeepCopy([val |-> r.val, oid |-> r.oid]), r.st),
                      r.log, d)
    ELSE r

resolve_nested_refs(schema, st, d) ==
    IF d > MaxDepth
    THEN Raise("RecursionError", Err("RecursionError", <<>>), st, <<>>)
    ELSE IF ~IsDict(schema) THEN Ok(schema, OidSub, st, <<>>)
    ELSE IF DictHas(schema, REF)
    THEN AfterRef(schema, resolve_ref(DictGet(schema, REF).s, st, d + 1), d)
    ELSE NestedItems(schema.kv, <<>>, st, d)

\* resolved_schema[key] = r.val, then the items that follow
ItemDone(items, resolved, r, d) ==
    IF r.kind # "ok" THEN r
    ELSE After(r.log,
               NestedItems(Tail(items),
                           Append(resolved, <<items[1][1], r.val>>), r.st, d))

\* lines 169-185: for key, value in schema.items(): resolved_schema[key] = ...
NestedItems(items, resolved, st, d) ==
    IF items = <<>> THEN Ok(JObj(resolved), OidFresh, st, <<>>)
    ELSE ItemDone(items, resolved,
                  IF IsDict(items[1][2])
                  THEN resolve_nested_refs(items[1][2], st, d + 1)
                  ELSE IF IsList(items[1][2])
                  THEN NestedList(items[1][2].items, <<>>, st, d)
                  ELSE Ok(items[1][2], OidSub, st, <<>>),
                  d)

ListItemDone(items, done, r, d) ==
    IF r.kind # "ok" THEN r
    ELSE After(r.log, NestedList(Tail(items), Append(done, r.val), r.st, d))

\* lines 174-181: [self._resolve_nested_refs(item) if isinstance(item, dict)
\* else item for item in value]
NestedList(items, done, st, d) ==
    IF items = <<>> THEN Ok(JArr(done), OidFresh, st, <<>>)
    ELSE ListItemDone(items, done,
                      IF IsDict(items[1])
                      THEN resolve_nested_refs(items[1], st, d + 1)
                      ELSE Ok(items[1], OidSub, st, <<>>),
                      d)

\* resolve_schema_refs(schema): a resolver of its own, then the deep walk
resolve_schema_refs(schema) ==
    resolve_nested_refs(schema,
                        [stack |-> <<>>, cache |-> EmptyCache, root |-> schema],
                        1)

(***************************************************************************)
(* The documents and the reference URIs the calls are made with.           *)
(***************************************************************************)
Leaf(c) == JObj(<< <<<<"t">>, JStr(<<c>>)>> >>)

RefTo(uri) == JObj(<< <<REF, JStr(uri)>> >>)

RefWith(uri, key, value) == JObj(<< <<REF, JStr(uri)>>, <<key, value>> >>)

\* keys that need escaping, the empty key, arrays
DocPointers ==
    JObj(<< <<<<>>, Leaf("e")>>,
            <<<<"a", "/", "b">>, Leaf("s")>>,
            <<<<"m", "~", "n">>, Leaf("n")>>,
            <<<<"~", "1">>, Leaf("x")>>,
            <<<<"l">>, JArr(<<Leaf("i"), JStr(<<"v">>)>>)>>,
            <<<<"d">>, JObj(<< <<<<>>, Leaf("q")>> >>)>> >>)

\* chains of references, siblings beside a reference, references in arrays
DocChains ==
    JObj(<< <<<<"A">>, JObj(<< <<<<"t">>, JStr(<<"s">>)>>,
                              <<<<"k">>, JStr(<<"1">>)>> >>)>>,
            <<<<"B">>, RefTo(<<"#", "/", "A">>)>>,
            <<<<"C">>, RefWith(<<"#", "/", "B">>, <<"k">>, JStr(<<"2">>))>>,
            <<<<"D">>, JObj(<< <<<<"p">>, RefTo(<<"#", "/", "A">>)>>,
                              <<<<"q">>, JArr(<<RefTo(<<"#", "/", "B">>),
                                               JStr(<<"v">>)>>)>> >>)>>,
            <<<<"E">>, RefWith(<<"#", "/", "A">>, <<"n">>,
                               RefTo(<<"#", "/", "B">>))>> >>)

\* a self-reference, a cycle of two, a cycle of three, a way into a cycle
DocCycles ==
    JObj(<< <<<<"s">>, RefTo(<<"#", "/", "s">>)>>,
            <<<<"p">>, RefTo(<<"#", "/", "q">>)>>,
            <<<<"q">>, RefTo(<<"#", "/", "p">>)>>,
            <<<<"x">>, RefTo(<<"#", "/", "y">>)>>,
            <<<<"y">>, JObj(<< <<<<"i">>, JArr(<<RefTo(<<"#", "/", "z">>)>>)>> >>)>>,
            <<<<"z">>, RefWith(<<"#", "/", "x">>, <<"k">>, JStr(<<"1">>))>>,
            <<<<"h">>, JObj(<< <<<<"i">>, RefTo(<<"#", "/", "p">>)>> >>)>>,
            <<<<"o">>, Leaf("s")>> >>)

\* a reference to the root document from inside it
DocRootRef ==
    JObj(<< <<<<"t">>, JStr(<<"s">>)>>,
            <<<<"r">>, RefTo(<<"#">>)>> >>)

\* the root document is itself a reference to the root document
DocSelfRoot == RefTo(<<"#">>)

\* a reference to the root document with a sibling keyword
DocRootSibling ==
    JObj(<< <<<<"t">>, JStr(<<"s">>)>>,
            <<<<"r">>, RefWith(<<"#">>, <<"k">>, JStr(<<"1">>))>>,
            <<<<"w">>, RefWith(<<"#">>, <<"r">>, JStr(<<"1">>))>> >>)

\* references whose target is no object, and an array inside an array
DocShapes ==
    JObj(<< <<<<"A">>, Leaf("s")>>,
            <<<<"L">>, JArr(<<JArr(<<RefTo(<<"#", "/", "A">>)>>)>>)>>,
            <<<<"N">>, RefWith(<<"#", "/", "L">>, <<"k">>, JStr(<<"1">>))>>,
            <<<<"S">>, RefWith(<<"#", "/", "A", "/", "t">>, <<"k">>,
                               JStr(<<"1">>))>>,
            <<<<"M">>, RefTo(<<"#", "/", "L">>)>> >>)

Docs == {DocPointers, DocChains, DocCycles, DocRootRef, DocSelfRoot,
         DocRootSibling, DocShapes}

\* the URIs resolve_ref is called with, per document
UrisOf(doc) ==
    IF doc = DocPointers
    THEN {<<"#">>, <<"#", "/">>,
          <<"#", "/", "a", "~", "1", "b">>, <<"#", "/", "m", "~", "0", "n">>,
          <<"#", "/", "~", "0", "1">>, <<"#", "/", "a", "/", "b">>,
          <<"#", "/", "l", "/", "0">>, <<"#", "/", "l", "/", "-", "0">>,
          <<"#", "/", "l", "/", "2">>, <<"#", "/", "l", "/", "-", "1">>,
          <<"#", "/", "l", "/", "x">>, <<"#", "/", "l", "/", "1", "/", "t">>,
          <<"#", "/", "d", "/">>, <<"#", "l">>, <<"l">>, <<"x", "#", "/", "l">>}
    ELSE IF doc = DocChains
    THEN {<<>>, <<"#", "/", "A">>, <<"#", "/", "B">>, <<"#", "/", "C">>,
          <<"#", "/", "D">>, <<"#", "/", "E">>, <<"#", "/", "F">>}
    ELSE IF doc = DocCycles
    THEN {<<"#", "/", "s">>, <<"#", "/", "p">>, <<"#", "/", "q">>,
          <<"#", "/", "x">>, <<"#", "/", "z">>, <<"#", "/", "h">>,
          <<"#", "/", "o">>, <<"#", "/">>}
    ELSE IF doc = DocShapes
    THEN {<<"#", "/", "A">>, <<"#", "/", "L">>, <<"#", "/", "N">>,
          <<"#", "/", "S">>, <<"#", "/", "M">>, <<"#", "/", "L", "/", "0", "/", "0">>}
    ELSE {<<"#">>, <<>>, <<"#", "/">>, <<"#", "/", "r">>, <<"#", "/", "w">>}

\* the dicts of a document, the document included
RECURSIVE DictsIn(_)
DictsIn(v) ==
    IF IsDict(v)
    THEN {v} \cup UNION {DictsIn(v.kv[i][2]) : i \in 1..Len(v.kv)}
    ELSE IF IsList(v)
    THEN UNION {DictsIn(v.items[i]) : i \in 1..Len(v.items)}
    ELSE {}

(***************************************************************************)
(* The resolver as a state machine: one action per call on the instance.   *)
(***************************************************************************)
NoCall == [op |-> "none"]

State == [stack |-> resolution_stack, cache |-> resolved_cache,
          root |-> root_schema]

\* what a call leaves behind: the instance's new state, and in last the call,
\* its outcome and the state it began in
Called(op, arg, o) ==
    /\ root_schema' = o.st.root
    /\ resolution_stack' = o.st.stack
    /\ resolved_cache' = o.st.cache
    /\ last' = [val |-> o.val, oid |-> o.oid, log |-> o.log, kind |-> o.kind,
                err |-> o.err, op |-> op, arg |-> arg, pre |-> State]
    /\ UNCHANGED <<FORMAT_VALIDATORS, threads>>

\* resolver.resolve_ref(ref_uri)
CallResolveRef ==
    \E ref_uri \in UrisOf(root_schema) :
        Called("resolve_ref", ref_uri, resolve_ref(ref_uri, State, 1))

\* resolver._resolve_nested_refs(schema), schema a node of the document
CallResolveNested ==
    \E schema \in DictsIn(root_schema) :
        Called("resolve_nested_refs", schema,
               resolve_nested_refs(schema, State, 1))

\* resolver._resolve_nested_refs(node), node the result of the deep walk
\* that has just returned
CallResolveNestedAgain ==
    /\ last.op = "resolve_nested_refs"
    /\ last.kind = "ok"
    /\ Called("resolve_nested_refs_again", last.val,
              resolve_nested_refs(last.val, State, 1))

\* resolve_schema_refs(schema): the call builds and drops a resolver of its
\* own; the instance's stack and cache are not involved
SchemaRefsCalled(o) ==
    /\ root_schema' = o.st.root
    /\ UNCHANGED <<resolution_stack, resolved_cache, FORMAT_VALIDATORS,
                   threads>>
    /\ last' = [val |-> o.val, oid |-> o.oid,
                log |-> o.log, kind |-> o.kind, err |-> o.err,
                op |-> "resolve_schema_refs", arg |-> root_schema,
                pre |-> State]

CallResolveSchemaRefs == SchemaRefsCalled(resolve_schema_refs(root_schema))

Init ==
    /\ root_schema \in Docs
    /\ resolution_stack = <<>>
    /\ resolved_cache = EmptyCache
    /\ FORMAT_VALIDATORS = BuiltinFormats
    /\ threads = NoThreads
    /\ last = NoCall

Next ==
    \/ CallResolveRef
    \/ CallResolveNested
    \/ CallResolveNestedAgain
    \/ CallResolveSchemaRefs

Spec == Init /\ [][Next]_vars

(***************************************************************************)
(* What the claims speak of: the references inside a node, the node a URI  *)
(* points at, whether a reference leads back to itself.                    *)
(***************************************************************************)
\* the "$ref" URIs held anywhere inside v
RECURSIVE RefsIn(_)
RefsIn(v) ==
    IF IsDict(v)
    THEN (IF DictHas(v, REF) THEN {DictGet(v, REF).s} ELSE {})
         \cup UNION {RefsIn(v.kv[i][2]) : i \in 1..Len(v.kv)}
    ELSE IF IsList(v)
    THEN UNION {RefsIn(v.items[i]) : i \in 1..Len(v.items)}
    ELSE {}

\* JSON Pointer (RFC 6901): the empty pointer is the whole document, and every
\* "/" starts a segment, so "/" is the one segment "" (the empty key)
PointerSubtree(doc, pointer) ==
    IF pointer = <<>> THEN [val |-> doc, kind |-> "ok", err |-> NoErr]
    ELSE IF ~StartsWithSlash(pointer) THEN PointerError("InvalidPointer")
    ELSE WalkSegments(Split(Tail(pointer), "/"), doc)

\* the node a fragment-only URI points at
PointedNode(doc, uri) ==
    IF urldefrag(uri).uri # <<>> THEN PointerError("UnsupportedReference")
    ELSE PointerSubtree(doc, urldefrag(uri).fragment)

\* the references found in the node uri points at
RefsFrom(doc, uri) ==
    IF PointedNode(doc, uri).kind = "ok"
    THEN RefsIn(PointedNode(doc, uri).val) ELSE {}

RECURSIVE ReachedIn(_, _, _)
ReachedIn(doc, uris, n) ==
    IF n = 0 THEN uris
    ELSE ReachedIn(doc, uris \cup UNION {RefsFrom(doc, u) : u \in uris}, n - 1)

\* uri points, directly or transitively, back to itself
PointsBackToItself(doc, uri) ==
    uri \in ReachedIn(doc, RefsFrom(doc, uri), Cardinality(RefsIn(doc)))

IsRefCall == last.op = "resolve_ref"

IsNestedCall == last.op = "resolve_nested_refs"

(***************************************************************************)
(* The claims about the resolver.                                          *)
(***************************************************************************)
\* C1: resolving a reference that points, directly or transitively, back to
\* itself always fails with the circular-reference error, whatever the length
\* of the cycle and whatever the form of the URI, the root reference '#'
\* included; no node is returned for it.
C1_CycleAlwaysFails ==
    (IsRefCall /\ PointsBackToItself(root_schema, last.arg))
        => (last.kind = "ValueError" /\ last.err.code = "CircularReference")

\* C2: for every valid JSON Pointer p resolvable in the document,
\* resolve_ref("#" + p) returns the exact subtree that indexing the document
\* with p's unescaped segments reaches, the empty-string key included.  (Stated
\* for the subtrees that hold no reference, where the dereferencing of the
\* result plays no part.)
C2_PointerReturnsSubtree ==
    (/\ IsRefCall
     /\ Len(last.arg) > 0 /\ Head(last.arg) = "#"
     /\ PointerSubtree(root_schema, Tail(last.arg)).kind = "ok"
     /\ RefsIn(PointerSubtree(root_schema, Tail(last.arg)).val) = {})
        => (/\ last.kind = "ok"
            /\ JEq(last.val, PointerSubtree(root_schema, Tail(last.arg)).val))

\* every resolve_ref call of the log leaves with the stack it entered with:
\* open holds the entries of the calls that have not left yet
RECURSIVE StackRestored(_, _)
StackRestored(log, open) ==
    IF log = <<>> THEN open = <<>>
    ELSE IF Head(log).ev = "enter"
         THEN StackRestored(Tail(log), <<Head(log)>> \o open)
    ELSE IF Head(log).ev = "exit"
         THEN /\ open # <<>>
              /\ Head(open).uri = Head(log).uri
              /\ Head(open).stack = Head(log).stack
              /\ StackRestored(Tail(log), Tail(open))
    ELSE StackRestored(Tail(log), open)

\* C3: the resolution stack is restored on every exit path: every call of
\* resolve_ref, the nested ones included, leaves (by return or by exception)
\* with the stack it began with, and after any sequence of top-level calls the
\* stack is empty.
C3_StackRestored ==
    /\ resolution_stack = <<>>
    /\ last.op # "none" => StackRestored(last.log, <<>>)

\* C3 witness: a call failed inside a nested resolution, two or more URIs
\* deep, and the calls it was in left by exception.
C3_Witness ==
    /\ IsRefCall
    /\ last.kind # "ok"
    /\ \E i \in 1..Len(last.log) :
          last.log[i].ev = "exit" /\ Len(last.log[i].stack) >= 2

\* a cache hit inside a log is the whole of its call: entry, hit, exit, with
\* one stack throughout
HitsAreBare(log) ==
    \A i \in 1..Len(log) :
        log[i].ev = "hit"
            => /\ i > 1 /\ i < Len(log)
               /\ log[i - 1] = Ev("enter", log[i].uri, log[i].stack)
               /\ log[i + 1] = Ev("exit", log[i].uri, log[i].stack)

\* C4: a successful resolve_ref(uri) stores its result in the cache under uri;
\* a later resolve_ref(uri) returns the cached entry without consulting or
\* changing the resolution stack and without walking the pointer again; a
\* resolve_ref(uri) that fails leaves no cache entry for uri.
C4_CacheContract ==
    IsRefCall =>
        /\ last.kind = "ok"
              => /\ last.arg \in DOMAIN resolved_cache
                 /\ resolved_cache[last.arg].val = last.val
        /\ last.arg \in DOMAIN last.pre.cache
              => /\ last.kind = "ok"
                 /\ last.val = last.pre.cache[last.arg].val
                 /\ last.log = <<Ev("enter", last.arg, last.pre.stack),
                                 Ev("hit", last.arg, last.pre.stack),
                                 Ev("exit", last.arg, last.pre.stack)>>
                 /\ State = last.pre
        /\ last.kind # "ok" => last.arg \notin DOMAIN resolved_cache
        /\ HitsAreBare(last.log)

\* C4 witness: resolve_ref was called for a pointer URI the cache already
\* held.
C4_Witness ==
    /\ IsRefCall
    /\ last.arg \in DOMAIN last.pre.cache
    /\ Len(last.arg) > 1

\* the value of sibling key as the deep walk leaves it
SiblingResolved(key, value, st) ==
    DictGet(NestedItems(<< <<key, value>> >>, <<>>, st, 1).val, key)

\* the overlay C5 describes, for a node and the outcome of resolving its
\* reference in the state the call began in
IsOverlay(result, schema, target) ==
    /\ IsDict(result)
    /\ ~DictHas(result, REF)
    /\ DictKeys(result) = (DictKeys(target.val) \cup DictKeys(schema)) \ {REF}
    /\ \A k \in DictKeys(schema) \ {REF} :
          JEq(DictGet(result, k),
              SiblingResolved(k, DictGet(schema, k), target.st))
    /\ \A k \in DictKeys(target.val) \ DictKeys(schema) :
          JEq(DictGet(result, k), DictGet(target.val, k))

OverlayReturned(schema, target) ==
    (target.kind = "ok" /\ IsDict(target.val))
        => (last.kind = "ok" /\ IsOverlay(last.val, schema, target))

\* C5: for a node that holds $ref together with sibling keywords,
\* _resolve_nested_refs returns the resolved target overlaid with the
\* siblings: every sibling key carries the sibling's value with its nested
\* references resolved, every other key the resolved target's value, and there
\* is no top-level $ref; this for every target the reference resolves to.
\* (Stated for the targets that are objects.)
C5_SiblingOverlay ==
    (IsNestedCall /\ DictHas(last.arg, REF) /\ Len(last.arg.kv) > 1)
        => OverlayReturned(last.arg,
                           resolve_ref(DictGet(last.arg, REF).s, last.pre, 1))

\* C6: _resolve_nested_refs is idempotent: where it succeeds on n, applying
\* it to its own result succeeds and gives an equal node, because one pass
\* leaves no $ref anywhere in its result, inside arrays, arrays in arrays and
\* targets reached through '#' included.
C6_NestedIdempotent ==
    last.op = "resolve_nested_refs_again"
        => (last.kind = "ok" /\ JEq(last.val, last.arg))

\* C7: no call changes the root schema document, and overlaying sibling
\* keywords writes neither into the root document nor into a node the cache
\* holds: every cache entry keeps the value it was stored with.
C7_RootNeverMutated ==
    [][/\ root_schema' = root_schema
       /\ \A u \in DOMAIN resolved_cache :
             /\ u \in DOMAIN resolved_cache'
             /\ resolved_cache'[u] = resolved_cache[u]]_vars

\* C7 witness: a node with $ref and siblings was resolved when the cache
\* already held the object its reference resolves to, so the overlay was made
\* from a node the cache holds.
C7_Witness ==
    /\ IsNestedCall
    /\ last.kind = "ok"
    /\ DictHas(last.arg, REF) /\ Len(last.arg.kv) > 1
    /\ DictGet(last.arg, REF).s \in DOMAIN last.pre.cache
    /\ ~JEq(last.val, last.pre.cache[DictGet(last.arg, REF).s].val)


(***************************************************************************)
(* templates.py: the validators.  A configuration value is a Python value  *)
(* (int, float, bool, str); a float is kept in halves, so 1.5 is 3 halves  *)
(* and 2.0 is 4, and float("inf") is a value of its own.  A view is the    *)
(* place in the configuration that holds the value.                        *)
(***************************************************************************)
MaxInt == 3
MaxBranches == 2

PInt(n) == [t |-> "int", s |-> <<>>, n |-> n]
PFloat(halves) == [t |-> "float", s |-> <<>>, n |-> halves]
PInf == [t |-> "inf", s |-> <<>>, n |-> 0]
PBool(b) == [t |-> "bool", s |-> <<>>, n |-> IF b THEN 1 ELSE 0]
PStr(s) == [t |-> "str", s |-> s, n |-> 0]
NoVal == [t |-> "none", s |-> <<>>, n |-> 0]

\* isinstance(value, float)
IsFloat(value) == value.t \in {"float", "inf"}

\* a keyword argument left at None, or given
None == <<>>
Some(n) == <<n>>

\* a subview that holds a value, and one that holds nothing
View(value) == [value |-> value, found |-> TRUE]
MissingView == [value |-> NoVal, found |-> FALSE]

\* the outcome of a validator: the value it returns, the ConfigError raised
\* by self.fail(message, view), or another exception leaving it
NoMsg == [parts |-> <<>>, text |-> "", num |-> <<>>]
Returned(value) == [val |-> value, kind |-> "ok", msg |-> NoMsg]
fail(text, num, parts) ==
    [val |-> NoVal, kind |-> "ConfigError",
     msg |-> [parts |-> parts, text |-> text, num |-> num]]
Crash(exception) == [val |-> NoVal, kind |-> exception, msg |-> NoMsg]

Abs(n) == IF n < 0 THEN 0 - n ELSE n

\* confuse.String.convert with no pattern
String_convert(value) ==
    IF value.t # "str" THEN fail("must be a string", <<>>, <<>>)
    ELSE Returned(value)

\* SchemaString.convert, pattern and string_format left at None
SchemaString_convert(template, value, view) ==
    IF String_convert(value).kind # "ok" THEN String_convert(value)
    ELSE IF template.min_length # None
            /\ Len(value.s) < template.min_length[1]
    THEN fail("must be at least characters long", template.min_length, <<>>)
    ELSE IF template.max_length # None
            /\ Len(value.s) > template.max_length[1]
    THEN fail("must be at most characters long", template.max_length, <<>>)
    ELSE Returned(value)

\* confuse.Integer.convert on a value that is neither int nor float
Integer_convert(value) == fail("must be a number", <<>>, <<>>)

\* checks that take the exclusive bounds for inclusive ones
IntegerChecksInclusive(template, v) ==
    IF template.minimum # None /\ v < template.minimum[1]
    THEN fail("must be at least", template.minimum, <<>>)
    ELSE IF template.maximum # None /\ v > template.maximum[1]
    THEN fail("must be at most", template.maximum, <<>>)
    ELSE IF template.exclusive_minimum # None
            /\ v < template.exclusive_minimum[1]
    THEN fail("must be greater than", template.exclusive_minimum, <<>>)
    ELSE IF template.exclusive_maximum # None
            /\ v > template.exclusive_maximum[1]
    THEN fail("must be less than", template.exclusive_maximum, <<>>)
    ELSE IF template.multiple_of # None /\ template.multiple_of[1] = 0
    THEN Crash("ZeroDivisionError")
    ELSE IF template.multiple_of # None
            /\ v % Abs(template.multiple_of[1]) # 0
    THEN fail("must be a multiple of", template.multiple_of, <<>>)
    ELSE Returned(PInt(v))

\* the constraint checks of SchemaInteger.convert on the integer v
IntegerChecks(template, v) ==
    IF template.minimum # None /\ v < template.minimum[1]
    THEN fail("must be at least", template.minimum, <<>>)
    ELSE IF template.maximum # None /\ v > template.maximum[1]
    THEN fail("must be at most", template.maximum, <<>>)
    ELSE IF template.exclusive_minimum # None
            /\ v <= template.exclusive_minimum[1]
    THEN fail("must be greater than", template.exclusive_minimum, <<>>)
    ELSE IF template.exclusive_maximum # None
            /\ v >= template.exclusive_maximum[1]
    THEN fail("must be less than", template.exclusive_maximum, <<>>)
    ELSE IF template.multiple_of # None /\ template.multiple_of[1] = 0
    THEN Crash("ZeroDivisionError")
    ELSE IF template.multiple_of # None
            /\ v % Abs(template.multiple_of[1]) # 0
    THEN fail("must be a multiple of", template.multiple_of, <<>>)
    ELSE Returned(PInt(v))

\* SchemaInteger.convert: int(value) raises OverflowError on an infinite float
SchemaInteger_convert(template, value, view) ==
    IF value.t = "bool"
    THEN fail("must be an integer, not a boolean", <<>>, <<>>)
    ELSE IF value.t = "inf" THEN Crash("OverflowError")
    ELSE IF value.t = "float"
    THEN (IF value.n % 2 # 0
          THEN fail("must be an integer, not a float", <<>>, <<>>)
          ELSE IntegerChecks(template, value.n \div 2))
    ELSE IF value.t = "int" THEN IntegerChecks(template, value.n)
    ELSE Integer_convert(value)

\* confuse.Number.convert on a value that is neither int nor float
Number_convert(value) == fail("must be numeric", <<>>, <<>>)

\* a number in halves
Halves(value) == IF value.t = "int" THEN 2 * value.n ELSE value.n

\* the constraint checks of SchemaNumber.convert; an infinite float is above
\* every bound and its remainder is nan, which is not 0
NumberChecks(template, value) ==
    IF template.minimum # None /\ value.t # "inf"
       /\ Halves(value) < 2 * template.minimum[1]
    THEN fail("must be at least", template.minimum, <<>>)
    ELSE IF template.maximum # None
            /\ (value.t = "inf" \/ Halves(value) > 2 * template.maximum[1])
    THEN fail("must be at most", template.maximum, <<>>)
    ELSE IF template.exclusive_minimum # None /\ value.t # "inf"
            /\ Halves(value) <= 2 * template.exclusive_minimum[1]
    THEN fail("must be greater than", template.exclusive_minimum, <<>>)
    ELSE IF template.exclusive_maximum # None
            /\ (value.t = "inf"
                \/ Halves(value) >= 2 * template.exclusive_maximum[1])
    THEN fail("must be less than", template.exclusive_maximum, <<>>)
    ELSE IF template.multiple_of # None /\ template.multiple_of[1] = 0
    THEN Crash("ZeroDivisionError")
    ELSE IF template.multiple_of # None
            /\ (value.t = "inf"
                \/ Halves(value) % (2 * Abs(template.multiple_of[1])) # 0)
    THEN fail("must be a multiple of", template.multiple_of, <<>>)
    ELSE Returned(value)

\* SchemaNumber.convert
SchemaNumber_convert(template, value, view) ==
    IF value.t = "bool"
    THEN fail("must be a number, not a boolean", <<>>, <<>>)
    ELSE IF value.t = "int" \/ IsFloat(value)
    THEN NumberChecks(template, value)
    ELSE Number_convert(value)


(***************************************************************************)
(* The combinators.  A branch is evaluated by convert(value, view); only   *)
(* confuse.ConfigError is caught, any other exception leaves the loop and  *)
(* the combinator.                                                         *)
(***************************************************************************)
SchemaString(min_length, max_length) ==
    [min_length |-> min_length, max_length |-> max_length,
     cls |-> "SchemaString"]
SchemaInteger(minimum, maximum, exclusive_minimum, exclusive_maximum, multiple_of) ==
    [minimum |-> minimum, maximum |-> maximum,
     exclusive_minimum |-> exclusive_minimum,
     exclusive_maximum |-> exclusive_maximum,
     multiple_of |-> multiple_of, cls |-> "SchemaInteger"]
SchemaNumber(minimum, maximum, exclusive_minimum, exclusive_maximum, multiple_of) ==
    [minimum |-> minimum, maximum |-> maximum,
     exclusive_minimum |-> exclusive_minimum,
     exclusive_maximum |-> exclusive_maximum,
     multiple_of |-> multiple_of, cls |-> "SchemaNumber"]
AllOf(templates) == [cls |-> "AllOf", templates |-> templates]
SchemaOneOf(templates) == [cls |-> "SchemaOneOf", templates |-> templates]
Not(template) == [template |-> template, cls |-> "Not"]

\* confuse.as_template on a Template instance
as_template(template) == template

\* view.first() found nothing and the template has no default
NotFoundError == fail("not found", <<>>, <<>>)

RECURSIVE convert(_, _, _)
RECURSIVE Template_value(_, _)
RECURSIVE AllOfLoop(_, _, _, _, _, _)
RECURSIVE OneOfLoop(_, _, _, _, _, _)

\* an AllOf that hands each branch the value the branch before it returned
BranchInputChained(value, final_value) == final_value

\* template_obj.convert(value, view): each template validates the original
\* value
BranchInput(value, final_value) == value

\* after the loop of AllOf.convert
AllOfEnd(final_value, errors) ==
    IF errors # <<>>
    THEN fail("must match all templates; failures", <<>>, errors)
    ELSE Returned(final_value)

\* the body of the loop of AllOf.convert for one template, r its outcome
AllOfStep(templates, i, value, view, final_value, errors, r) ==
    IF r.kind = "ok"
    THEN AllOfLoop(templates, i + 1, value, view, r.val, errors)
    ELSE IF r.kind = "ConfigError"
    THEN AllOfLoop(templates, i + 1, value, view, final_value,
                   Append(errors, r.msg))
    ELSE r

AllOfLoop(templates, i, value, view, final_value, errors) ==
    IF i > Len(templates) THEN AllOfEnd(final_value, errors)
    ELSE AllOfStep(templates, i, value, view, final_value, errors,
                   convert(as_template(templates[i]),
                           BranchInput(value, final_value), view))

AllOf_convert(template, value, view) ==
    AllOfLoop(template.templates, 1, value, view, value, <<>>)

\* f"template {i}: {str(exc)}"
TemplateError(i, msg) == [parts |-> <<msg>>, text |-> "template", num |-> <<i>>]

\* after the loop of SchemaOneOf.convert
OneOfEnd(valid_templates, errors) ==
    IF Len(valid_templates) = 0
    THEN fail("must match exactly one template; no templates matched",
              <<>>, errors)
    ELSE IF Len(valid_templates) > 1
    THEN fail("must match exactly one template; multiple templates matched",
              [k \in 1..Len(valid_templates) |-> valid_templates[k][1]],
              <<>>)
    ELSE Returned(valid_templates[1][2])

\* the body of the loop of SchemaOneOf.convert for template i (from 0)
OneOfStep(templates, i, value, view, valid_templates, errors, r) ==
    IF r.kind = "ok"
    THEN OneOfLoop(templates, i + 1, value, view,
                   Append(valid_templates, <<i, r.val>>), errors)
    ELSE IF r.kind = "ConfigError"
    THEN OneOfLoop(templates, i + 1, value, view, valid_templates,
                   Append(errors, TemplateError(i, r.msg)))
    ELSE r

OneOfLoop(templates, i, value, view, valid_templates, errors) ==
    IF i >= Len(templates) THEN OneOfEnd(valid_templates, errors)
    ELSE OneOfStep(templates, i, value, view, valid_templates, errors,
                   convert(as_template(templates[i + 1]), value, view))

SchemaOneOf_convert(template, value, view) ==
    OneOfLoop(template.templates, 0, value, view, <<>>, <<>>)

\* a Not that accepts what the wrapped template accepts
NotSame(value, r) ==
    IF r.kind = "ok" THEN Returned(value)
    ELSE IF r.kind = "ConfigError"
    THEN fail("must not match the template", <<>>, <<>>)
    ELSE r

\* Not.convert after template_obj.value(view), r its outcome
NotEnd(value, r) ==
    IF r.kind = "ConfigError" THEN Returned(value)
    ELSE IF r.kind = "ok"
    THEN fail("must not match the template", <<>>, <<>>)
    ELSE r

Not_convert(template, value, view) ==
    NotEnd(value, Template_value(as_template(template.template), view))

\* Template.value(view): convert the value the view holds
Template_value(template, view) ==
    IF view.found THEN convert(template, view.value, view)
    ELSE NotFoundError

convert(template, value, view) ==
    CASE template.cls = "SchemaString" ->
             SchemaString_convert(template, value, view)
      [] template.cls = "SchemaInteger" ->
             SchemaInteger_convert(template, value, view)
      [] template.cls = "SchemaNumber" ->
             SchemaNumber_convert(template, value, view)
      [] template.cls = "AllOf" -> AllOf_convert(template, value, view)
      [] template.cls = "SchemaOneOf" ->
             SchemaOneOf_convert(template, value, view)
      [] template.cls = "Not" -> Not_convert(template, value, view)
      [] template.cls = "Template" -> Returned(value)
      [] template.cls = "Optional" -> Returned(value)

(***************************************************************************)
(* The validators and values evaluated, and the evaluations.               *)
(***************************************************************************)
AnyInteger == SchemaInteger(None, None, None, None, None)
AnyNumber == SchemaNumber(None, None, None, None, None)
AnyString == SchemaString(None, None)

Leaves ==
    {AnyInteger,
     SchemaInteger(Some(0), Some(2), None, None, None),
     SchemaInteger(None, None, Some(0), Some(MaxInt), Some(2)),
     AnyNumber,
     SchemaNumber(None, Some(1), None, None, None),
     SchemaNumber(None, None, Some(0), None, Some(1)),
     AnyString,
     SchemaString(Some(1), Some(2))}

Branches ==
    Leaves \cup {Not(AnyInteger), Not(AnyString),
                 AllOf(<<AnyInteger, AnyNumber>>),
                 SchemaOneOf(<<AnyNumber, AnyInteger>>)}

BranchLists == UNION {[1..n -> Branches] : n \in 0..MaxBranches}

Values ==
    {PInt(n) : n \in -1..MaxInt}
    \cup {PFloat(halves) : halves \in -1..(MaxInt + 1)}
    \cup {PInf, PBool(TRUE), PBool(FALSE)}
    \cup {PStr(<<>>), PStr(<<"a">>), PStr(<<"a", "b">>),
          PStr(<<"a", "b", "c">>)}

\* an evaluation not yet made: the validators and the value drawn for it
Drawn(templates, value) ==
    [value |-> value, op |-> "drawn", templates |-> templates]

\* what an evaluation leaves behind: the validator, the value and view it was
\* given, and its outcome; the resolver is not involved
Evaluated(op, template, value, view, o) ==
    /\ last' = [value |-> value, val |-> o.val, kind |-> o.kind,
                op |-> op, msg |-> o.msg, template |-> template, view |-> view]
    /\ UNCHANGED <<root_schema, resolution_stack, resolved_cache,
                   FORMAT_VALIDATORS, threads>>

\* AllOf(templates).convert(value, view), view holding value
CallAllOf ==
    /\ last.op = "drawn"
    /\ Evaluated("AllOf.convert", AllOf(last.templates), last.value,
                 View(last.value),
                 convert(AllOf(last.templates), last.value, View(last.value)))

\* SchemaOneOf(templates).convert(value, view), view holding value
CallOneOf ==
    /\ last.op = "drawn"
    /\ Evaluated("SchemaOneOf.convert", SchemaOneOf(last.templates),
                 last.value, View(last.value),
                 convert(SchemaOneOf(last.templates), last.value,
                         View(last.value)))

\* Not(template).convert(value, view), view holding value
CallNot ==
    /\ last.op = "drawn"
    /\ Len(last.templates) = 1
    /\ Evaluated("Not.convert", Not(last.templates[1]), last.value,
                 View(last.value),
                 convert(Not(last.templates[1]), last.value,
                         View(last.value)))

\* view.get(template), the view holding the value or nothing
CallGet ==
    /\ last.op = "drawn"
    /\ Len(last.templates) = 1
    /\ \E view \in {View(last.value), MissingView} :
           Evaluated("view.get", last.templates[1], view.value, view,
                     Template_value(last.templates[1], view))

InitTemplates ==
    /\ root_schema = JObj(<<>>)
    /\ resolution_stack = <<>>
    /\ resolved_cache = EmptyCache
    /\ FORMAT_VALIDATORS = BuiltinFormats
    /\ threads = NoThreads
    /\ last \in {Drawn(templates, value) :
                     templates \in BranchLists, value \in Values}

NextTemplates ==
    \/ CallAllOf
    \/ CallOneOf
    \/ CallNot
    \/ CallGet

SpecTemplates == InitTemplates /\ [][NextTemplates]_vars


(***************************************************************************)
(* What the combinator claims speak of: the outcome of each branch of the  *)
(* evaluated combinator on the value the combinator was given.  A validator*)
(* accepts when it returns a value and fails when it raises the            *)
(* ConfigError of self.fail.                                               *)
(***************************************************************************)
BranchOutcome(i) ==
    convert(last.template.templates[i], last.value, last.view)

BranchCount == Len(last.template.templates)

AcceptingBranches == {i \in 1..BranchCount : BranchOutcome(i).kind = "ok"}

\* the messages of the failing branches from branch i on, in branch order
RECURSIVE FailuresFrom(_)
FailuresFrom(i) ==
    IF i > BranchCount THEN <<>>
    ELSE (IF BranchOutcome(i).kind = "ConfigError"
          THEN <<BranchOutcome(i).msg>> ELSE <<>>) \o FailuresFrom(i + 1)

\* the same, each under the index (from 0) of its branch
RECURSIVE IndexedFailuresFrom(_)
IndexedFailuresFrom(i) ==
    IF i > BranchCount THEN <<>>
    ELSE (IF BranchOutcome(i).kind = "ConfigError"
          THEN <<TemplateError(i - 1, BranchOutcome(i).msg)>> ELSE <<>>)
         \o IndexedFailuresFrom(i + 1)

\* the indices (from 0) of the accepting branches from branch i on
RECURSIVE AcceptingFrom(_)
AcceptingFrom(i) ==
    IF i > BranchCount THEN <<>>
    ELSE (IF BranchOutcome(i).kind = "ok" THEN <<i - 1>> ELSE <<>>)
         \o AcceptingFrom(i + 1)

\* C8: AllOf.convert accepts a value iff every branch accepts the original
\* value; when it accepts it returns what the last branch returned for the
\* original value, and when it fails its message holds the message of every
\* failing branch.
C8_AllOf ==
    last.op = "AllOf.convert" =>
        /\ (last.kind = "ok") <=> (AcceptingBranches = 1..BranchCount)
        /\ (last.kind = "ok" /\ BranchCount > 0)
              => last.val = BranchOutcome(BranchCount).val
        /\ last.kind = "ConfigError"
              => /\ last.msg.text = "must match all templates; failures"
                 /\ last.msg.parts = FailuresFrom(1)

\* AllOf of an integer and a number validator accepted 2.0 and returned the
\* float of the last branch, not the integer 2 of the first
C8_Witness ==
    /\ last.op = "AllOf.convert"
    /\ last.kind = "ok"
    /\ BranchCount = 2
    /\ last.template.templates[1].cls = "SchemaInteger"
    /\ last.template.templates[2].cls = "SchemaNumber"
    /\ last.value = PFloat(4)
    /\ last.val = PFloat(4)

\* C9: SchemaOneOf.convert accepts a value iff exactly one branch accepts it
\* and then returns what that branch returned; with no accepting branch it
\* fails with the errors of the branches under their indices, with two or
\* more it fails with the indices of the accepting branches.
C9_OneOf ==
    last.op = "SchemaOneOf.convert" =>
        /\ (last.kind = "ok") <=> (Cardinality(AcceptingBranches) = 1)
        /\ last.kind = "ok"
              => \A i \in AcceptingBranches : last.val = BranchOutcome(i).val
        /\ Cardinality(AcceptingBranches) = 0
              => /\ last.kind = "ConfigError"
                 /\ last.msg.text
                      = "must match exactly one template; no templates matched"
                 /\ last.msg.parts = IndexedFailuresFrom(1)
        /\ Cardinality(AcceptingBranches) > 1
              => /\ last.kind = "ConfigError"
                 /\ last.msg.text
                      = "must match exactly one template; multiple templates matched"
                 /\ last.msg.num = AcceptingFrom(1)

\* the wrapped validator of the evaluated Not, on the value Not was given
WrappedOutcome == convert(last.template.template, last.value, last.view)

\* C10: Not.convert accepts iff the wrapped validator fails on the same
\* value; when it accepts it returns the value unchanged, and when the
\* wrapped validator accepts, Not fails.
C10_Not ==
    last.op = "Not.convert" =>
        /\ (last.kind = "ok") <=> (WrappedOutcome.kind = "ConfigError")
        /\ last.kind = "ok" => last.val = last.value
        /\ WrappedOutcome.kind = "ok" => last.kind = "ConfigError"

\* Not of an integer validator with exclusive minimum 0 accepted 0.0 and
\* returned the float
C10_Witness ==
    /\ last.op = "Not.convert"
    /\ last.kind = "ok"
    /\ last.template.template.cls = "SchemaInteger"
    /\ last.template.template.exclusive_minimum = Some(0)
    /\ last.value = PFloat(0)
    /\ last.val = PFloat(0)

(***************************************************************************)
(* to_template, the schema compiler (confuse_jsonschema/to_template.py).   *)
(* Conditional.convert and SchemaObject.convert call it while they         *)
(* evaluate.  Its source is not among the files this development reads, so *)
(* it is written from section 4.3 of the specification: a "$ref" at the top*)
(* of the schema is resolved by the resolver before anything else, then the*)
(* declared type, or the type the keywords imply, picks the validator and  *)
(* the keywords become its arguments; a failure of the resolver or of the  *)
(* compiler is not a ConfigError.  For a schema with no type and no keyword*)
(* that implies one, the empty schema above all, the compiler either gives *)
(* the base validator confuse.Template, which accepts every value, or      *)
(* refuses the schema as UnsupportedSchema: both are kept, as the choice   *)
(* untyped.                                                                *)
(***************************************************************************)
TYPE == <<"t", "y", "p", "e">>
TYPE_STRING == <<"s", "t", "r", "i", "n", "g">>
TYPE_INTEGER == <<"i", "n", "t", "e", "g", "e", "r">>
TYPE_NUMBER == <<"n", "u", "m", "b", "e", "r">>
MIN_LENGTH == <<"m", "i", "n", "L", "e", "n", "g", "t", "h">>
MAX_LENGTH == <<"m", "a", "x", "L", "e", "n", "g", "t", "h">>
MINIMUM == <<"m", "i", "n", "i", "m", "u", "m">>
MAXIMUM == <<"m", "a", "x", "i", "m", "u", "m">>
MULTIPLE_OF == <<"m", "u", "l", "t", "i", "p", "l", "e", "O", "f">>

\* confuse.Template(): its convert returns the value as it is
Template == [cls |-> "Template"]

UntypedChoices == {"Template", "UnsupportedSchema"}

\* schema.get(key), a number or None
Keyword(schema, key) ==
    IF DictHas(schema, key) THEN Some(DictGet(schema, key).n) ELSE None

StringTemplate(schema) ==
    SchemaString(Keyword(schema, MIN_LENGTH), Keyword(schema, MAX_LENGTH))

IntegerTemplate(schema) ==
    SchemaInteger(Keyword(schema, MINIMUM), Keyword(schema, MAXIMUM), None,
                  None, Keyword(schema, MULTIPLE_OF))

NumberTemplate(schema) ==
    SchemaNumber(Keyword(schema, MINIMUM), Keyword(schema, MAXIMUM), None,
                 None, Keyword(schema, MULTIPLE_OF))

\* what the compiler leaves: the validator and the resolver's state, or the
\* exception it raised
Compiled(template, st) ==
    [st |-> st, kind |-> "ok", err |-> NoErr, template |-> template]

CompileError(kind, err, st) ==
    [st |-> st, kind |-> kind, err |-> err, template |-> Template]

\* the dispatch on the declared or implied type
Dispatch(schema, st, untyped) ==
    IF ~IsDict(schema)
    THEN CompileError("InvalidSchema", Err("InvalidSchema", <<>>), st)
    ELSE IF DictHas(schema, TYPE)
    THEN (IF DictGet(schema, TYPE) = JStr(TYPE_STRING)
          THEN Compiled(StringTemplate(schema), st)
          ELSE IF DictGet(schema, TYPE) = JStr(TYPE_INTEGER)
          THEN Compiled(IntegerTemplate(schema), st)
          ELSE IF DictGet(schema, TYPE) = JStr(TYPE_NUMBER)
          THEN Compiled(NumberTemplate(schema), st)
          ELSE CompileError("UnsupportedSchema",
                            Err("UnsupportedSchema", <<>>), st))
    ELSE IF DictHas(schema, MIN_LENGTH) \/ DictHas(schema, MAX_LENGTH)
    THEN Compiled(StringTemplate(schema), st)
    ELSE IF \/ DictHas(schema, MINIMUM)
            \/ DictHas(schema, MAXIMUM)
            \/ DictHas(schema, MULTIPLE_OF)
    THEN Compiled(NumberTemplate(schema), st)
    ELSE IF untyped = "Template" THEN Compiled(Template, st)
    ELSE CompileError("UnsupportedSchema", Err("UnsupportedSchema", <<>>), st)

\* the dispatch on what the reference resolved to, or the resolver's error
AfterResolve(r, untyped) ==
    IF r.kind # "ok" THEN CompileError(r.kind, r.err, r.st)
    ELSE Dispatch(r.val, r.st, untyped)

\* to_template(schema, resolver), st the state of the resolver
to_template(schema, st, untyped) ==
    IF IsDict(schema) /\ DictHas(schema, REF)
    THEN AfterResolve(resolve_ref(DictGet(schema, REF).s, st, 1), untyped)
    ELSE Dispatch(schema, st, untyped)

(***************************************************************************)
(* Conditional.convert.  if_schema, then_schema and else_schema are kept   *)
(* as schemas and compiled at each evaluation; then_schema and else_schema *)
(* are None when absent.  The outcome carries the state the evaluation     *)
(* leaves the shared resolver in.                                          *)
(***************************************************************************)
Conditional(if_schema, then_schema, else_schema) ==
    [cls |-> "Conditional", if_schema |-> if_schema,
     then_schema |-> then_schema, else_schema |-> else_schema]

\* bool(branch_schema): None and the empty dict are false
Truthy(branch_schema) ==
    branch_schema # None /\ Len(branch_schema[1].kv) > 0

\* an outcome of the validator, with the resolver's state
With(o, st) == [val |-> o.val, st |-> st, kind |-> o.kind, msg |-> o.msg]

\* an exception of the compiler or the resolver leaving convert
Escapes(c) == With(Crash(c.kind), c.st)

\* f"{name} condition: {str(e)}"
ConditionError(name, msg) == [parts |-> <<msg>>, text |-> name, num |-> <<>>]

IfConditionFailed == [parts |-> <<>>, text |-> "if condition failed", num |-> <<>>]

\* a choice that falls to else_schema whenever then_schema is not taken,
\* whether or not the value conformed to if_schema
BranchSchemaAnyElse(template, if_matches) ==
    IF if_matches /\ template.then_schema # None THEN template.then_schema
    ELSE IF template.else_schema # None THEN template.else_schema
    ELSE None

\* the choice of the branch schema
BranchSchema(template, if_matches) ==
    IF if_matches /\ template.then_schema # None THEN template.then_schema
    ELSE IF ~if_matches /\ template.else_schema # None
    THEN template.else_schema
    ELSE None

\* overall_success
OverallSuccess(if_matches, if_validation_passed, branch_schema, branch_validation_passed) ==
    IF if_matches
    THEN /\ if_validation_passed
         /\ ~(Truthy(branch_schema) /\ ~branch_validation_passed)
    ELSE IF Truthy(branch_schema) THEN branch_validation_passed
    ELSE if_validation_passed

\* validation_errors after the last append
FinalErrors(if_matches, if_validation_passed, branch_schema, validation_errors) ==
    IF ~if_matches /\ ~Truthy(branch_schema) /\ ~if_validation_passed
    THEN Append(validation_errors, IfConditionFailed)
    ELSE validation_errors

\* from "Determine overall success" to the return
Overall(if_matches, branch_schema, branch_validation_passed, validation_errors, final_value, st) ==
    IF /\ ~OverallSuccess(if_matches, if_matches, branch_schema,
                          branch_validation_passed)
       /\ FinalErrors(if_matches, if_matches, branch_schema,
                      validation_errors) # <<>>
    THEN With(fail("conditional validation failed", <<>>,
                   FinalErrors(if_matches, if_matches, branch_schema,
                               validation_errors)), st)
    ELSE With(Returned(final_value), st)

\* the branch validator has run: b is what it did with the value
BranchConverted(if_matches, branch_schema, validation_errors, final_value, b, st) ==
    IF b.kind = "ConfigError"
    THEN Overall(if_matches, branch_schema, FALSE,
                 Append(validation_errors,
                        ConditionError(IF if_matches THEN "then condition"
                                       ELSE "else condition", b.msg)),
                 final_value, st)
    ELSE IF b.kind # "ok" THEN With(b, st)
    ELSE Overall(if_matches, branch_schema, TRUE, validation_errors, b.val, st)

\* the branch schema has been compiled: c is what to_template did
BranchCompiled(if_matches, branch_schema, validation_errors, final_value, value, view, c) ==
    IF c.kind # "ok" THEN Escapes(c)
    ELSE BranchConverted(if_matches, branch_schema, validation_errors,
                         final_value, convert(c.template, value, view), c.st)

\* the validator of if_schema has run, twice with the same result r
IfConverted(template, value, view, st, untyped, r) ==
    IF r.kind \notin {"ok", "ConfigError"} THEN With(r, st)
    ELSE LET if_matches == r.kind = "ok"
             branch_schema == BranchSchema(template, if_matches)
             final_value == IF if_matches THEN r.val ELSE value
             validation_errors ==
                 IF ~if_matches /\ ~Truthy(branch_schema)
                 THEN <<ConditionError("if condition", r.msg)>>
                 ELSE <<>>
         IN  IF branch_schema # None
             THEN BranchCompiled(if_matches, branch_schema, validation_errors,
                                 final_value, value, view,
                                 to_template(branch_schema[1], st, untyped))
             ELSE Overall(if_matches, branch_schema, TRUE, validation_errors,
                          final_value, st)

\* if_schema has been compiled: c is what to_template did
IfCompiled(template, value, view, untyped, c) ==
    IF c.kind # "ok" THEN Escapes(c)
    ELSE IfConverted(template, value, view, c.st, untyped,
                     convert(c.template, value, view))

\* Conditional.convert(value, view)
Conditional_convert(template, value, view, st, untyped) ==
    IfCompiled(template, value, view, untyped,
               to_template(template.if_schema, st, untyped))

(***************************************************************************)
(* The conditionals evaluated: if, then and else drawn from a few schemas, *)
(* two of them references into the root document the resolver was built on.*)
(***************************************************************************)
StringSchema == JObj(<< <<TYPE, JStr(TYPE_STRING)>> >>)
MinLengthSchema == JObj(<< <<MIN_LENGTH, JNum(MaxInt)>> >>)
NumberSchema == JObj(<< <<TYPE, JStr(TYPE_NUMBER)>> >>)
IntegerSchema == JObj(<< <<TYPE, JStr(TYPE_INTEGER)>> >>)
EmptySchema == JObj(<<>>)
RefString == RefTo(<<"#", "/", "S">>)
RefCycle == RefTo(<<"#", "/", "c">>)

DocDefs ==
    JObj(<< <<<<"S">>, StringSchema>>,
            <<<<"c">>, RefTo(<<"#", "/", "c">>)>> >>)

Schemas ==
    {StringSchema, MinLengthSchema, NumberSchema, IntegerSchema, EmptySchema,
     RefString, RefCycle}

OptionalSchemas == {None} \cup {Some(schema) : schema \in Schemas}

Conditionals ==
    {Conditional(if_schema, then_schema, else_schema) :
         if_schema \in Schemas, then_schema \in OptionalSchemas,
         else_schema \in OptionalSchemas}

\* an evaluation not yet made
DrawnConditional(template, value, untyped) ==
    [value |-> value, op |-> "drawn", template |-> template,
     untyped |-> untyped]

\* Conditional(...).convert(value, view), view holding value
CallConditional ==
    /\ last.op = "drawn"
    /\ LET o == Conditional_convert(last.template, last.value,
                                    View(last.value), State, last.untyped)
       IN  /\ last' = [value |-> last.value, val |-> o.val, kind |-> o.kind,
                       op |-> "Conditional.convert", msg |-> o.msg,
                       template |-> last.template, view |-> View(last.value),
                       untyped |-> last.untyped]
           /\ resolution_stack' = o.st.stack
           /\ resolved_cache' = o.st.cache
           /\ root_schema' = o.st.root
           /\ UNCHANGED <<FORMAT_VALIDATORS, threads>>

InitConditional ==
    /\ root_schema = DocDefs
    /\ resolution_stack = <<>>
    /\ resolved_cache = EmptyCache
    /\ FORMAT_VALIDATORS = BuiltinFormats
    /\ threads = NoThreads
    /\ last \in {DrawnConditional(template, value, untyped) :
                     template \in Conditionals, value \in Values,
                     untyped \in UntypedChoices}

NextConditional == CallConditional

SpecConditional == InitConditional /\ [][NextConditional]_vars

(***************************************************************************)
(* What the Conditional claims speak of: what the validator of one of the  *)
(* Conditional's schemas, compiled by a resolver of its own on the same    *)
(* root document, does with the value the Conditional was given.           *)
(***************************************************************************)
FreshState == [stack |-> <<>>, cache |-> EmptyCache, root |-> root_schema]

CompiledOutcome(c) ==
    IF c.kind # "ok" THEN Crash(c.kind)
    ELSE convert(c.template, last.value, last.view)

SchemaOutcome(schema) ==
    CompiledOutcome(to_template(schema, FreshState, last.untyped))

IfOutcome == SchemaOutcome(last.template.if_schema)

WithoutElse ==
    Conditional_convert([last.template EXCEPT !.else_schema = None],
                        last.value, last.view, FreshState, last.untyped)

\* C12: when the value conforms to if, the Conditional accepts the value iff
\* then is absent or the value conforms to then, a failure of then is
\* reported as the "then" failure, and else is not evaluated: the outcome
\* and the resolver's cache are those of the Conditional without else.
C12_ConditionalThen ==
    (last.op = "Conditional.convert" /\ IfOutcome.kind = "ok") =>
        /\ (last.kind = "ok")
             <=> \/ last.template.then_schema = None
                 \/ SchemaOutcome(last.template.then_schema[1]).kind = "ok"
        /\ (/\ last.template.then_schema # None
            /\ SchemaOutcome(last.template.then_schema[1]).kind
                 = "ConfigError")
              => /\ last.kind = "ConfigError"
                 /\ last.msg.parts
                      = <<ConditionError("then condition",
                            SchemaOutcome(last.template.then_schema[1]).msg)>>
        /\ last.val = WithoutElse.val
        /\ last.kind = WithoutElse.kind
        /\ last.msg = WithoutElse.msg
        /\ resolved_cache = WithoutElse.st.cache

\* "ab" conforms to if {"type": "string"} and not to then {"minLength": 3}:
\* the Conditional failed, and its else, a reference that does not resolve,
\* was left alone
C12_Witness ==
    /\ last.op = "Conditional.convert"
    /\ last.template.if_schema = StringSchema
    /\ last.template.then_schema = Some(MinLengthSchema)
    /\ last.template.else_schema = Some(RefCycle)
    /\ last.value = PStr(<<"a", "b">>)
    /\ last.kind = "ConfigError"

\* C13: whatever validator evaluates whatever value, the evaluation either
\* returns or raises the ConfigError of self.fail: no other exception leaves
\* convert or Template.value.
C13_OnlyConfigError ==
    last.op # "drawn" => last.kind \in {"ok", "ConfigError"}

(***************************************************************************)
(* Two threads evaluating one validator tree.  The tree is a Conditional   *)
(* whose if_schema is a reference, so that each evaluation starts with     *)
(* to_template(if_schema, resolver) and the resolver's resolve_ref, on the *)
(* one SchemaResolver the tree holds.  Nothing locks the resolver: a       *)
(* thread may be switched out between any two of resolve_ref's accesses to *)
(* resolution_stack and _resolved_cache, so resolve_ref is taken here one  *)
(* access at a time, a frame per call in progress:                         *)
(*   cache   the test "ref_uri in self._resolved_cache"                    *)
(*   cycle   the test "ref_uri in self.resolution_stack" and urldefrag     *)
(*   push    self.resolution_stack.append(ref_uri)                         *)
(*   walk    _resolve_json_pointer and the entry of _resolve_nested_refs   *)
(*   nested  waiting for the resolve_ref that _resolve_nested_refs called  *)
(*   pop     the finally clause, self.resolution_stack.pop()               *)
(*   store   self._resolved_cache[ref_uri] = resolved, and the return      *)
(* The targets hold a reference only as a bare {"$ref": u} node, for which *)
(* _resolve_nested_refs returns what resolve_ref(u) returned.  What follows*)
(* the compilation in Conditional.convert touches nothing shared and is    *)
(* one step with the return of the outermost resolve_ref.                  *)
(***************************************************************************)
Threads == {1, 2}

RefChain == RefTo(<<"#", "/", "T">>)
RefMissing == RefTo(<<"#", "/", "m">>)

DocThreads ==
    JObj(<< <<<<"S">>, StringSchema>>,
            <<<<"c">>, RefTo(<<"#", "/", "c">>)>>,
            <<<<"T">>, RefTo(<<"#", "/", "S">>)>> >>)

ThreadTrees ==
    {Conditional(if_schema, None, None) :
         if_schema \in {RefString, RefChain, RefCycle, RefMissing}}

ThreadValues == {PStr(<<"a">>), PInt(1)}

\* a call of resolve_ref(ref_uri) about to begin
Frame(ref_uri) ==
    [uri |-> ref_uri, val |-> JNull, oid |-> OidFresh, kind |-> "ok",
     err |-> NoErr, at |-> "cache"]

\* what a resolve_ref call leaves with, in state st of the resolver
Left(val, oid, kind, err, st) ==
    [val |-> val, oid |-> oid, st |-> st, log |-> <<>>, kind |-> kind,
     err |-> err]

NoOutcome == [val |-> NoVal, kind |-> "none", msg |-> NoMsg]

Outcome(o) == [val |-> o.val, kind |-> o.kind, msg |-> o.msg]

\* a thread that has not begun its evaluation of template on value
Idle(template, value, untyped) ==
    [value |-> value, template |-> template, untyped |-> untyped,
     pc |-> "idle", frames |-> <<>>, out |-> NoOutcome]

Top(th) == th.frames[Len(th.frames)]

\* the thread with its innermost frame changed
WithTop(th, frame) == [th EXCEPT !.frames[Len(th.frames)] = frame]

\* the frame that waited for a nested resolve_ref, which left with res: what
\* it returned is what _resolve_nested_refs returns, an exception goes on to
\* the finally clause
Resumed(frame, res) ==
    [frame EXCEPT !.val = res.val, !.oid = res.oid, !.kind = res.kind,
                  !.err = res.err, !.at = "pop"]

\* the thread once its innermost resolve_ref has left with res: the caller
\* goes on, or, the call being to_template's, Conditional.convert runs to
\* its end
Leave(th, res) ==
    IF Len(th.frames) = 1
    THEN [th EXCEPT
            !.pc = "done", !.frames = <<>>,
            !.out = Outcome(IfCompiled(th.template, th.value, View(th.value),
                                       th.untyped,
                                       AfterResolve(res, th.untyped)))]
    ELSE [th EXCEPT
            !.frames = Append(SubSeq(@, 1, Len(@) - 2),
                              Resumed(@[Len(@) - 1], res))]

\* Conditional.convert begins: to_template(self.if_schema, self.resolver)
\* calls resolver.resolve_ref(if_schema["$ref"])
StartEvaluation(t) ==
    /\ threads[t].pc = "idle"
    /\ threads' = [threads EXCEPT
                     ![t].pc = "resolving",
                     ![t].frames =
                         <<Frame(DictGet(threads[t].template.if_schema,
                                         REF).s)>>]
    /\ UNCHANGED <<root_schema, resolution_stack, resolved_cache, last,
                   FORMAT_VALIDATORS>>

\* if ref_uri in self._resolved_cache: return self._resolved_cache[ref_uri]
CheckCache(t) ==
    /\ threads[t].pc = "resolving"
    /\ Top(threads[t]).at = "cache"
    /\ LET th == threads[t]
           ref_uri == Top(th).uri
       IN  threads' = [threads EXCEPT ![t] =
               IF ref_uri \in DOMAIN resolved_cache
               THEN Leave(th, Left(resolved_cache[ref_uri].val,
                                   resolved_cache[ref_uri].oid, "ok", NoErr,
                                   State))
               ELSE WithTop(th, [Top(th) EXCEPT !.at = "cycle"])]
    /\ UNCHANGED <<root_schema, resolution_stack, resolved_cache, last,
                   FORMAT_VALIDATORS>>

\* the cycle test, then urldefrag and the tests on its parts
CheckCycle(t) ==
    /\ threads[t].pc = "resolving"
    /\ Top(threads[t]).at = "cycle"
    /\ LET th == threads[t]
           ref_uri == Top(th).uri
           parts == urldefrag(ref_uri)
       IN  threads' = [threads EXCEPT ![t] =
               IF IsCircular(ref_uri, resolution_stack)
               THEN Leave(th, Left(JNull, OidFresh, "ValueError",
                                   Err("CircularReference",
                                       resolution_stack \o <<ref_uri>>),
                                   State))
               ELSE IF parts.uri # <<>>
               THEN Leave(th, Left(JNull, OidFresh, "ValueError",
                                   Err("UnsupportedReference", <<>>), State))
               ELSE IF parts.fragment = <<>>
               THEN WithTop(th, [Top(th) EXCEPT !.val = root_schema,
                                                !.oid = OidRoot,
                                                !.at = "store"])
               ELSE IF ~StartsWithSlash(parts.fragment)
               THEN Leave(th, Left(JNull, OidFresh, "ValueError",
                                   Err("InvalidPointer", <<>>), State))
               ELSE WithTop(th, [Top(th) EXCEPT !.at = "push"])]
    /\ UNCHANGED <<root_schema, resolution_stack, resolved_cache, last,
                   FORMAT_VALIDATORS>>

\* self.resolution_stack.append(ref_uri)
Push(t) ==
    /\ threads[t].pc = "resolving"
    /\ Top(threads[t]).at = "push"
    /\ resolution_stack' = PushStack(resolution_stack, Top(threads[t]).uri)
    /\ threads' = [threads EXCEPT ![t] =
                     WithTop(@, [Top(@) EXCEPT !.at = "walk"])]
    /\ UNCHANGED <<root_schema, resolved_cache, last, FORMAT_VALIDATORS>>

\* the walk has reached a node with no reference at its top: r is what
\* _resolve_nested_refs made of it
Nested(t, r) ==
    /\ threads' = [threads EXCEPT ![t] =
                     WithTop(@, [Top(@) EXCEPT !.val = r.val, !.oid = r.oid,
                                               !.kind = r.kind,
                                               !.err = r.err, !.at = "pop"])]
    /\ resolution_stack' = r.st.stack
    /\ resolved_cache' = r.st.cache
    /\ root_schema' = r.st.root

\* the try block: the pointer walk, then _resolve_nested_refs, which calls
\* resolve_ref when the node is a reference
Walk(t) ==
    /\ threads[t].pc = "resolving"
    /\ Top(threads[t]).at = "walk"
    /\ LET th == threads[t]
           walk == resolve_json_pointer(urldefrag(Top(th).uri).fragment,
                                        root_schema)
       IN  IF walk.kind # "ok"
           THEN /\ threads' = [threads EXCEPT ![t] =
                       WithTop(th, [Top(th) EXCEPT !.kind = walk.kind,
                                                   !.err = walk.err,
                                                   !.at = "pop"])]
                /\ UNCHANGED <<root_schema, resolution_stack, resolved_cache>>
           ELSE IF IsDict(walk.val) /\ DictHas(walk.val, REF)
           THEN /\ threads' = [threads EXCEPT ![t].frames =
                       Append(WithTop(th, [Top(th) EXCEPT !.at = "nested"])
                                  .frames,
                              Frame(DictGet(walk.val, REF).s))]
                /\ UNCHANGED <<root_schema, resolution_stack, resolved_cache>>
           ELSE Nested(t, resolve_nested_refs(walk.val, State, 1))
    /\ UNCHANGED <<last, FORMAT_VALIDATORS>>

\* finally: self.resolution_stack.pop(); then the exception goes on to the
\* caller, or the call goes on to the cache
Pop(t) ==
    /\ threads[t].pc = "resolving"
    /\ Top(threads[t]).at = "pop"
    /\ resolution_stack'
         = PopStack(resolution_stack, Top(threads[t]).kind # "ok")
    /\ LET th == threads[t] IN
       threads' = [threads EXCEPT ![t] =
           IF Top(th).kind # "ok"
           THEN Leave(th, Left(JNull, OidFresh, Top(th).kind, Top(th).err,
                               [State EXCEPT !.stack = resolution_stack']))
           ELSE WithTop(th, [Top(th) EXCEPT !.at = "store"])]
    /\ UNCHANGED <<root_schema, resolved_cache, last, FORMAT_VALIDATORS>>

\* self._resolved_cache[ref_uri] = resolved; return resolved
Store(t) ==
    /\ threads[t].pc = "resolving"
    /\ Top(threads[t]).at = "store"
    /\ LET th == threads[t]
           entry == CachedEntry(Top(th).uri, Top(th).val, Top(th).oid)
       IN  /\ resolved_cache' = CacheStore(resolved_cache, Top(th).uri, entry)
           /\ threads' = [threads EXCEPT ![t] =
                  Leave(th, Left(entry.val, entry.oid, "ok", NoErr,
                                 [State EXCEPT !.cache = resolved_cache']))]
    /\ UNCHANGED <<root_schema, resolution_stack, last, FORMAT_VALIDATORS>>

InitThreads ==
    /\ root_schema = DocThreads
    /\ resolution_stack = <<>>
    /\ resolved_cache = EmptyCache
    /\ FORMAT_VALIDATORS = BuiltinFormats
    /\ last = NoCall
    /\ \E template \in ThreadTrees, untyped \in UntypedChoices :
           threads \in [Threads -> {Idle(template, value, untyped) :
                                        value \in ThreadValues}]

NextThreads ==
    \E t \in Threads :
        \/ StartEvaluation(t)
        \/ CheckCache(t)
        \/ CheckCycle(t)
        \/ Push(t)
        \/ Walk(t)
        \/ Pop(t)
        \/ Store(t)

SpecThreads == InitThreads /\ [][NextThreads]_vars

\* the evaluation of thread t run alone, on a resolver of its own
Alone(t) ==
    Outcome(Conditional_convert(threads[t].template, threads[t].value,
                                View(threads[t].value), FreshState,
                                threads[t].untyped))

\* C14: however two evaluations of one validator tree interleave, each ends
\* with the outcome it has when run alone.
C14_ThreadSafe ==
    \A t \in DOMAIN threads :
        threads[t].pc = "done" => threads[t].out = Alone(t)

(***************************************************************************)
(* SchemaObject.convert.  A Python dict value is the sequence of its       *)
(* <<key, value>> items in insertion order, keys being strings.  The       *)
(* additional keys are a Python set, iterated in an order the language     *)
(* does not fix: the order is an input of the evaluation.                  *)
(***************************************************************************)
PDict(items) == [t |-> "dict", s |-> items, n |-> 0]

\* key in value, value[key], value.keys()
Has(value, key) == \E i \in 1..Len(value.s) : value.s[i][1] = key
Item(value, key) == value.s[CHOOSE i \in 1..Len(value.s) : value.s[i][1] = key][2]
Keys(value) == {value.s[i][1] : i \in 1..Len(value.s)}

\* result[key] = v
SetKey(result, key, v) ==
    IF Has(result, key)
    THEN PDict([i \in 1..Len(result.s) |->
                  IF result.s[i][1] = key THEN <<key, v>> ELSE result.s[i]])
    ELSE PDict(Append(result.s, <<key, v>>))

\* the code point of a character, as far as the order of the keys goes
Alphabet == <<"a", "b", "c">>
Ord(c) == CHOOSE i \in 1..Len(Alphabet) : Alphabet[i] = c

\* a < b on Python strings
RECURSIVE StrLess(_, _)
StrLess(a, b) ==
    IF b = <<>> THEN FALSE
    ELSE IF a = <<>> THEN TRUE
    ELSE IF Ord(a[1]) # Ord(b[1]) THEN Ord(a[1]) < Ord(b[1])
    ELSE StrLess(Tail(a), Tail(b))

RECURSIVE Insert(_, _)
Insert(key, list) ==
    IF list = <<>> THEN <<key>>
    ELSE IF StrLess(key, list[1]) THEN <<key>> \o list
    ELSE <<list[1]>> \o Insert(key, Tail(list))

\* a list left in the order it was given in
SortedAsGiven(list) == list

\* sorted(list)
RECURSIVE Sorted(_)
Sorted(list) ==
    IF list = <<>> THEN <<>> ELSE Insert(list[1], Sorted(Tail(list)))

\* confuse.Optional(template): it inherits Template.convert
Optional(template) == [template |-> template, cls |-> "Optional"]

SchemaObject(properties_template, additional_properties, dependent_required, dependent_templates, property_names_template) ==
    [cls |-> "SchemaObject", properties_template |-> properties_template,
     additional_properties |-> additional_properties,
     dependent_required |-> dependent_required,
     dependent_templates |-> dependent_templates,
     property_names_template |-> property_names_template]

\* self.fail(f"...{key}...: {str(e)}", view)
KeyError(text, key, msg) == fail(text, <<key>>, <<msg>>)

\* SchemaObject._validate_property_names: the loop over value.keys()
RECURSIVE PropertyNames(_, _)
PropertyNames(template, items) ==
    IF items = <<>> THEN Returned(NoVal)
    ELSE LET r == convert(as_template(template.property_names_template[1]),
                          PStr(items[1][1]), View(PStr(items[1][1])))
         IN  IF r.kind = "ConfigError"
             THEN KeyError("property name is invalid", items[1][1], r.msg)
             ELSE IF r.kind # "ok" THEN r
             ELSE PropertyNames(template, Tail(items))

\* the loop over self.properties_template.items(): result the dict so far
RECURSIVE Properties(_, _, _)
Properties(items, value, result) ==
    IF items = <<>> THEN Returned(result)
    ELSE IF Has(value, items[1][1])
    THEN LET r == convert(as_template(items[1][2]),
                          Item(value, items[1][1]),
                          View(Item(value, items[1][1])))
         IN  IF r.kind = "ConfigError"
             THEN KeyError("property", items[1][1], r.msg)
             ELSE IF r.kind # "ok" THEN r
             ELSE Properties(Tail(items), value,
                             SetKey(result, items[1][1], r.val))
    ELSE IF items[1][2].cls # "Optional"
    THEN fail("missing required property", <<items[1][1]>>, <<>>)
    ELSE Properties(Tail(items), value, result)

\* set(value.keys()) - set(self.properties_template.keys())
AdditionalKeys(template, value) ==
    Keys(value) \ {template.properties_template[i][1] :
                       i \in 1..Len(template.properties_template)}

\* the loop over additional_keys that validates against additional_template
RECURSIVE AdditionalValidated(_, _, _, _)
AdditionalValidated(additional_template, keys, value, result) ==
    IF keys = <<>> THEN Returned(result)
    ELSE LET r == convert(as_template(additional_template),
                          Item(value, keys[1]), View(Item(value, keys[1])))
         IN  IF r.kind = "ConfigError"
             THEN KeyError("additional property", keys[1], r.msg)
             ELSE IF r.kind # "ok" THEN r
             ELSE AdditionalValidated(additional_template, Tail(keys), value,
                                      SetKey(result, keys[1], r.val))

\* the loop over additional_keys that lets them through
RECURSIVE AdditionalAsIs(_, _, _)
AdditionalAsIs(keys, value, result) ==
    IF keys = <<>> THEN result
    ELSE AdditionalAsIs(Tail(keys), value,
                        SetKey(result, keys[1], Item(value, keys[1])))

\* [prop for prop in required_props if prop not in value]
RECURSIVE MissingProps(_, _)
MissingProps(required_props, value) ==
    IF required_props = <<>> THEN <<>>
    ELSE (IF Has(value, required_props[1]) THEN <<>>
          ELSE <<required_props[1]>>)
         \o MissingProps(Tail(required_props), value)

\* a failure that reports only the first missing property
MissingFirstOnly(trigger_prop, missing_props) ==
    fail("property requires properties", <<trigger_prop, missing_props[1]>>,
         <<>>)

\* self.fail(f"property '{trigger_prop}' requires properties:
\* {sorted(missing_props)}", view)
MissingFailure(trigger_prop, missing_props) ==
    fail("property requires properties",
         <<trigger_prop>> \o Sorted(missing_props), <<>>)

\* SchemaObject._validate_dependent_required: the loop over
\* self.dependent_required.items()
RECURSIVE DependentRequired(_, _)
DependentRequired(items, value) ==
    IF items = <<>> THEN Returned(NoVal)
    ELSE IF /\ Has(value, items[1][1])
            /\ MissingProps(items[1][2], value) # <<>>
    THEN MissingFailure(items[1][1], MissingProps(items[1][2], value))
    ELSE DependentRequired(Tail(items), value)

\* SchemaObject._validate_dependent_schemas: the loop over
\* self.dependent_templates.items(), each view.get(template)
RECURSIVE DependentSchemas(_, _, _)
DependentSchemas(items, value, view) ==
    IF items = <<>> THEN Returned(NoVal)
    ELSE IF Has(value, items[1][1])
    THEN LET r == Template_value(items[1][2], view)
         IN  IF r.kind = "ConfigError"
             THEN KeyError("dependent schema for property", items[1][1],
                           r.msg)
             ELSE IF r.kind # "ok" THEN r
             ELSE DependentSchemas(Tail(items), value, view)
    ELSE DependentSchemas(Tail(items), value, view)

\* the dependency checks and the return: result the dict built so far
Dependencies(template, value, view, result, st) ==
    IF DependentRequired(template.dependent_required, value).kind # "ok"
    THEN With(DependentRequired(template.dependent_required, value), st)
    ELSE IF DependentSchemas(template.dependent_templates, value,
                             view).kind # "ok"
    THEN With(DependentSchemas(template.dependent_templates, value, view), st)
    ELSE With(Returned(result), st)

\* the additional properties were validated against the schema: r is what
\* the loop left
AdditionalDone(template, value, view, r, st) ==
    IF r.kind # "ok" THEN With(r, st)
    ELSE Dependencies(template, value, view, r.val, st)

\* additional_template has been compiled: c is what to_template did
AdditionalCompiled(template, value, view, order, result, c) ==
    IF c.kind # "ok" THEN Escapes(c)
    ELSE AdditionalDone(template, value, view,
                        AdditionalValidated(c.template, order, value, result),
                        c.st)

\* "Handle additional properties": order is the order in which the set
\* additional_keys is iterated, p what the loop over the properties left
Additional(template, value, view, st, untyped, order, p) ==
    IF p.kind # "ok" THEN With(p, st)
    ELSE IF /\ template.additional_properties.t = "bool"
            /\ template.additional_properties.n = 0
            /\ AdditionalKeys(template, value) # {}
    THEN With(fail("additional properties not allowed", Sorted(order), <<>>),
              st)
    ELSE IF template.additional_properties.t = "obj"
    THEN AdditionalCompiled(template, value, view, order, p.val,
                            to_template(template.additional_properties, st,
                                        untyped))
    ELSE IF /\ template.additional_properties.t = "bool"
            /\ template.additional_properties.n = 1
    THEN Dependencies(template, value, view,
                      AdditionalAsIs(order, value, p.val), st)
    ELSE Dependencies(template, value, view, p.val, st)

\* the property names were validated: n is what the loop left
NamesDone(template, value, view, st, untyped, order, n) ==
    IF n.kind # "ok" THEN With(n, st)
    ELSE Additional(template, value, view, st, untyped, order,
                    Properties(template.properties_template, value,
                               PDict(<<>>)))

\* SchemaObject.convert(value, view)
SchemaObject_convert(template, value, view, st, untyped, order) ==
    IF value.t # "dict" THEN With(fail("must be an object", <<>>, <<>>), st)
    ELSE NamesDone(template, value, view, st, untyped, order,
                   IF template.property_names_template # None
                   THEN PropertyNames(template, value.s)
                   ELSE Returned(NoVal))

(***************************************************************************)
(* The objects evaluated.                                                  *)
(***************************************************************************)
KA == <<"a">>
KB == <<"b">>
KAB == <<"a", "b">>

\* the keys an object may hold, in the order it may hold them in
ObjectKeys == <<KB, KAB, KA>>

ItemValues == {PStr(<<"a">>), PInt(1)}

\* the items of the keys numbered in S with the values f gives them, in the
\* order of ObjectKeys or in the reverse order
RECURSIVE ItemsOf(_, _, _)
ItemsOf(S, f, up) ==
    IF S = {} THEN <<>>
    ELSE LET i == CHOOSE i \in S :
                      \A j \in S : IF up THEN i <= j ELSE i >= j
         IN  << <<ObjectKeys[i], f[i]>> >> \o ItemsOf(S \ {i}, f, up)

ObjectValues ==
    UNION {{PDict(ItemsOf(S, f, up)) : f \in [S -> ItemValues],
                                       up \in BOOLEAN} :
               S \in SUBSET DOMAIN ObjectKeys}
    \cup {PInt(1)}

SchemaObjects ==
    {SchemaObject(properties_template, additional_properties,
                  dependent_required, dependent_templates,
                  property_names_template) :
         properties_template \in
             {<<>>, << <<KA, AnyString>> >>,
              << <<KA, Optional(AnyString)>> >>,
              << <<KB, AnyInteger>>, <<KA, AnyString>> >>},
         additional_properties \in
             {PBool(TRUE), PBool(FALSE), StringSchema, RefString,
              EmptySchema},
         dependent_required \in
             {<<>>, << <<KA, <<KB, KAB>>>> >>,
              << <<KB, <<KA>>>>, <<KA, <<KB, KAB>>>> >>},
         dependent_templates \in {<<>>, << <<KAB, AnyInteger>> >>},
         property_names_template \in {None, Some(SchemaString(None, Some(1)))}}

\* the orders in which a set of keys may be iterated
Orders(S) ==
    {order \in [1..Cardinality(S) -> S] :
         \A i, j \in 1..Cardinality(S) : order[i] = order[j] => i = j}

\* SchemaObject(...).convert(value, view), view holding value
CallObject ==
    /\ last.op = "drawn"
    /\ \E order \in Orders(IF last.value.t = "dict"
                           THEN AdditionalKeys(last.template, last.value)
                           ELSE {}) :
         LET o == SchemaObject_convert(last.template, last.value,
                                       View(last.value), State, last.untyped,
                                       order)
         IN  /\ last' = [value |-> last.value, val |-> o.val,
                         kind |-> o.kind, op |-> "SchemaObject.convert",
                         msg |-> o.msg, template |-> last.template,
                         view |-> View(last.value),
                         untyped |-> last.untyped, order |-> order]
             /\ resolution_stack' = o.st.stack
             /\ resolved_cache' = o.st.cache
             /\ root_schema' = o.st.root
             /\ UNCHANGED <<FORMAT_VALIDATORS, threads>>

InitObject ==
    /\ root_schema = DocDefs
    /\ resolution_stack = <<>>
    /\ resolved_cache = EmptyCache
    /\ FORMAT_VALIDATORS = BuiltinFormats
    /\ threads = NoThreads
    /\ last \in {DrawnConditional(template, value, untyped) :
                     template \in SchemaObjects, value \in ObjectValues,
                     untyped \in UntypedChoices}

NextObject == CallObject

SpecObject == InitObject /\ [][NextObject]_vars

(***************************************************************************)
(* What the object claims speak of.                                        *)
(***************************************************************************)
IsObjectCall == last.op = "SchemaObject.convert" /\ last.value.t = "dict"

\* the keys of the object that properties does not declare
Undeclared == AdditionalKeys(last.template, last.value)

\* list holds the keys of S, each once, in ascending order
IsSortedListOf(list, S) ==
    /\ Len(list) = Cardinality(S)
    /\ {list[i] : i \in 1..Len(list)} = S
    /\ \A i, j \in 1..Len(list) : i < j => StrLess(list[i], list[j])

\* the same evaluation by the same validator with additionalProperties true
Permissive ==
    SchemaObject_convert(
        [last.template EXCEPT !.additional_properties = PBool(TRUE)],
        last.value, last.view, FreshState, last.untyped, last.order)

\* what the validator of the additionalProperties schema does with the
\* value under key
CompiledOn(c, value) ==
    IF c.kind # "ok" THEN Crash(c.kind)
    ELSE convert(c.template, value, View(value))

AdditionalOutcome(key) ==
    CompiledOn(to_template(last.template.additional_properties, FreshState,
                           last.untyped),
               Item(last.value, key))

\* C15: with additionalProperties false an object with an undeclared key is
\* not accepted, and when nothing else is wrong with it the failure lists
\* exactly the undeclared keys in ascending order; with additionalProperties
\* true the result holds every undeclared key with its value unchanged; with
\* a schema, an accepted object has every undeclared value accepted by the
\* schema's validator and holds what it returned, and an object with an
\* undeclared value the validator fails on, nothing else being wrong, fails.
C15_AdditionalProperties ==
    IsObjectCall =>
        /\ (/\ last.template.additional_properties = PBool(FALSE)
            /\ Undeclared # {})
              => /\ last.kind # "ok"
                 /\ Permissive.kind = "ok"
                      => /\ last.kind = "ConfigError"
                         /\ last.msg.text = "additional properties not allowed"
                         /\ IsSortedListOf(last.msg.num, Undeclared)
        /\ (/\ last.template.additional_properties = PBool(TRUE)
            /\ last.kind = "ok")
              => \A key \in Undeclared :
                     /\ Has(last.val, key)
                     /\ Item(last.val, key) = Item(last.value, key)
        /\ last.template.additional_properties.t = "obj"
              => /\ last.kind = "ok"
                      => \A key \in Undeclared :
                             /\ AdditionalOutcome(key).kind = "ok"
                             /\ Has(last.val, key)
                             /\ Item(last.val, key)
                                  = AdditionalOutcome(key).val
                 /\ (/\ Permissive.kind = "ok"
                     /\ \E key \in Undeclared :
                            AdditionalOutcome(key).kind = "ConfigError")
                      => /\ last.kind = "ConfigError"
                         /\ last.msg.text = "additional property"

\* no properties declared and additionalProperties false: {"b": 1, "ab": 1}
\* failed listing ["ab", "b"]
C15_Witness ==
    /\ IsObjectCall
    /\ last.template.properties_template = <<>>
    /\ last.template.additional_properties = PBool(FALSE)
    /\ last.value = PDict(<< <<KB, PInt(1)>>, <<KAB, PInt(1)>> >>)
    /\ last.kind = "ConfigError"
    /\ last.msg.num = <<KAB, KB>>

\* the same evaluation by the same validator without dependentRequired
Independent ==
    SchemaObject_convert([last.template EXCEPT !.dependent_required = <<>>],
                         last.value, last.view, FreshState, last.untyped,
                         last.order)

\* the co-required properties of the i-th trigger that the object lacks
MissingOf(i) ==
    {last.template.dependent_required[i][2][j] :
         j \in 1..Len(last.template.dependent_required[i][2])}
    \ Keys(last.value)

\* the i-th trigger is in the object and some co-required property is not
Violated(i) ==
    /\ Has(last.value, last.template.dependent_required[i][1])
    /\ MissingOf(i) # {}

\* C16: an object that passes the other object checks is accepted iff no
\* trigger of dependentRequired is present with a co-required property
\* missing; otherwise the failure names such a trigger and lists exactly its
\* missing properties in ascending order.
C16_DependentRequired ==
    (IsObjectCall /\ Independent.kind = "ok") =>
        LET triggers == 1..Len(last.template.dependent_required) IN
        /\ (last.kind = "ok") <=> (\A i \in triggers : ~Violated(i))
        /\ (\E i \in triggers : Violated(i))
              => /\ last.kind = "ConfigError"
                 /\ last.msg.text = "property requires properties"
                 /\ \E i \in triggers :
                        /\ Violated(i)
                        /\ Head(last.msg.num)
                             = last.template.dependent_required[i][1]
                        /\ IsSortedListOf(Tail(last.msg.num), MissingOf(i))

\* dependentRequired {"a": ["b", "ab"]} and the object {"a": 1}: it failed
\* naming "a" and listing ["ab", "b"]
C16_Witness ==
    /\ IsObjectCall
    /\ last.template.dependent_required = << <<KA, <<KB, KAB>>>> >>
    /\ last.value = PDict(<< <<KA, PInt(1)>> >>)
    /\ last.kind = "ConfigError"
    /\ last.msg.num = <<KA, KAB, KB>>

(***************************************************************************)
(* SchemaInteger.convert on its own: every combination of a few bounds and *)
(* divisors, on every value.                                               *)
(***************************************************************************)
IntegerBounds == {None, Some(0), Some(MaxInt - 1)}

IntegerDivisors == {None, Some(1), Some(2), Some(0 - 2)}

SchemaIntegers ==
    {SchemaInteger(minimum, maximum, exclusive_minimum, exclusive_maximum,
                   multiple_of) :
         minimum \in IntegerBounds, maximum \in IntegerBounds,
         exclusive_minimum \in IntegerBounds,
         exclusive_maximum \in IntegerBounds, multiple_of \in IntegerDivisors}

\* SchemaInteger(...).convert(value, view), view holding value
CallInteger ==
    /\ last.op = "drawn"
    /\ Evaluated("SchemaInteger.convert", last.templates[1], last.value,
                 View(last.value),
                 convert(last.templates[1], last.value, View(last.value)))

InitInteger ==
    /\ root_schema = JObj(<<>>)
    /\ resolution_stack = <<>>
    /\ resolved_cache = EmptyCache
    /\ FORMAT_VALIDATORS = BuiltinFormats
    /\ threads = NoThreads
    /\ last \in {Drawn(<<template>>, value) :
                     template \in SchemaIntegers, value \in Values}

NextInteger == CallInteger

SpecInteger == InitInteger /\ [][NextInteger]_vars

\* the value given is an integer, or a float with no fractional part
IsIntegral == last.value.t = "int" \/ (last.value.t = "float" /\ last.value.n % 2 = 0)

\* that integer
Integral == IF last.value.t = "int" THEN last.value.n ELSE last.value.n \div 2

\* v is a multiple of m
Divides(m, v) == \E k \in (0 - Abs(v))..Abs(v) : v = k * m

\* v meets every constraint that is set
MeetsConstraints(template, v) ==
    /\ template.minimum # None => v >= template.minimum[1]
    /\ template.maximum # None => v <= template.maximum[1]
    /\ template.exclusive_minimum # None => v > template.exclusive_minimum[1]
    /\ template.exclusive_maximum # None => v < template.exclusive_maximum[1]
    /\ template.multiple_of # None => Divides(template.multiple_of[1], v)

\* C17: SchemaInteger.convert fails on every boolean; it accepts a float
\* only when the float has no fractional part, and then returns the integer;
\* it fails on a float with a fractional part; and it accepts an integer v,
\* given as an int or as such a float, iff v meets every constraint that is
\* set, returning v.
C17_SchemaInteger ==
    last.op = "SchemaInteger.convert" =>
        /\ last.value.t = "bool" => last.kind = "ConfigError"
        /\ (IsFloat(last.value) /\ last.kind = "ok")
              => /\ IsIntegral
                 /\ last.val = PInt(Integral)
        /\ (last.value.t = "float" /\ ~IsIntegral)
              => last.kind = "ConfigError"
        /\ IsIntegral
              => /\ last.kind \in {"ok", "ConfigError"}
                 /\ (last.kind = "ok")
                      <=> MeetsConstraints(last.template, Integral)
                 /\ last.kind = "ok" => last.val = PInt(Integral)

\* 1.0 under exclusiveMinimum 0 was accepted and returned as the integer 1
C17_Witness ==
    /\ last.op = "SchemaInteger.convert"
    /\ last.template.exclusive_minimum = Some(0)
    /\ last.template.multiple_of = Some(1)
    /\ last.value = PFloat(2)
    /\ last.kind = "ok"
    /\ last.val = PInt(1)

(***************************************************************************)
(* String formats: SchemaString.convert with string_format, and the        *)
(* registry of confuse_jsonschema/formats.py.  A format name is a string,  *)
(* a validator is known by its name: validate_email is the module's own,   *)
(* the three others are functions a caller registers.                      *)
(***************************************************************************)
\* [^@\s]
Plain(c) == c \notin {"@", " "}

\* validate_email: re.match(r"^[^@\s]+@[^@\s]+\.[^@\s]+$", value)
validate_email(value) ==
    \E i, j \in 1..Len(value.s) :
        /\ 1 < i /\ i + 1 < j /\ j < Len(value.s)
        /\ value.s[i] = "@"
        /\ value.s[j] = "."
        /\ \A k \in 1..Len(value.s) : k # i => Plain(value.s[k])

\* func(value)
CallValidator(func, value) ==
    CASE func = "validate_email" -> validate_email(value)
      [] func = "never" -> FALSE
      [] func = "always" -> TRUE
      [] func = "nonempty" -> Len(value.s) > 0

\* a lookup that knows only the validators the module registered itself
get_builtin_validator(registry, format_name) ==
    IF format_name \in DOMAIN BuiltinFormats
    THEN Some(BuiltinFormats[format_name]) ELSE None

\* get_format_validator(format_name): FORMAT_VALIDATORS.get(format_name)
get_format_validator(registry, format_name) ==
    IF format_name \in DOMAIN registry THEN Some(registry[format_name])
    ELSE None

\* register_format(name)(func): FORMAT_VALIDATORS[name] = func
register_format(registry, name, func) ==
    [n \in DOMAIN registry \cup {name} |->
        IF n = name THEN func ELSE registry[n]]

\* SchemaString(min_length, max_length, string_format=string_format)
FormatString(min_length, max_length, string_format) ==
    [min_length |-> min_length, max_length |-> max_length,
     cls |-> "SchemaString", string_format |-> string_format]

\* "Format validation": validator is what get_format_validator returned
FormatValidated(template, value, validator) ==
    IF validator # None /\ ~CallValidator(validator[1], value)
    THEN fail("must be a valid", <<template.string_format[1]>>, <<>>)
    ELSE Returned(value)

\* SchemaString.convert with string_format: the checks of
\* SchemaString_convert, then the format; bool(self.string_format) is false
\* for None and for the empty name
FormatString_convert(template, value, view, registry) ==
    IF SchemaString_convert(template, value, view).kind # "ok"
    THEN SchemaString_convert(template, value, view)
    ELSE IF template.string_format # None /\ template.string_format[1] # ""
    THEN FormatValidated(template, value,
                         get_format_validator(registry,
                                              template.string_format[1]))
    ELSE Returned(value)

FormatNames == {"", "email", "f"}

RegisteredFunctions == {"never", "always", "nonempty"}

FormatStrings ==
    {FormatString(None, None, string_format) :
         string_format \in {None} \cup {Some(name) : name \in FormatNames}}
    \cup {FormatString(Some(1), None, Some("f"))}

FormatValues ==
    {PStr(<<>>), PStr(<<"a">>), PStr(<<"a", "@", "b">>),
     PStr(<<"a", "@", "b", ".", "c">>), PStr(<<"@", "b", ".", "c">>),
     PStr(<<"a", " ", "@", "b", ".", "c">>), PInt(1)}

\* the template constructed and the value it will be given
Constructed(template, value) ==
    [name |-> "", value |-> value, val |-> NoVal, kind |-> "none",
     op |-> "drawn", pre |-> BuiltinFormats, msg |-> NoMsg,
     template |-> template, func |-> ""]

\* register_format(name)(func)
RegisterFormat ==
    \E name \in FormatNames, func \in RegisteredFunctions :
        /\ FORMAT_VALIDATORS' = register_format(FORMAT_VALIDATORS, name, func)
        /\ last' = [last EXCEPT !.val = NoVal, !.kind = "none",
                                !.op = "register_format", !.msg = NoMsg,
                                !.pre = FORMAT_VALIDATORS, !.name = name,
                                !.func = func]
        /\ UNCHANGED <<root_schema, resolution_stack, resolved_cache, threads>>

\* template.convert(value, view), with the registry as it is now
CallString ==
    /\ LET o == FormatString_convert(last.template, last.value,
                                     View(last.value), FORMAT_VALIDATORS)
       IN  last' = [last EXCEPT !.val = o.val, !.kind = o.kind,
                                !.op = "SchemaString.convert",
                                !.msg = o.msg, !.pre = FORMAT_VALIDATORS,
                                !.name = "", !.func = ""]
    /\ UNCHANGED <<root_schema, resolution_stack, resolved_cache,
                   FORMAT_VALIDATORS, threads>>

InitFormats ==
    /\ root_schema = JObj(<<>>)
    /\ resolution_stack = <<>>
    /\ resolved_cache = EmptyCache
    /\ FORMAT_VALIDATORS = BuiltinFormats
    /\ threads = NoThreads
    /\ last \in {Constructed(template, value) :
                     template \in FormatStrings, value \in FormatValues}

NextFormats ==
    \/ RegisterFormat
    \/ CallString

SpecFormats == InitFormats /\ [][NextFormats]_vars

\* the entries of every other name are what they were before the call
OthersUnchanged ==
    last.op = "register_format" =>
        /\ DOMAIN FORMAT_VALIDATORS = DOMAIN last.pre \cup {last.name}
        /\ FORMAT_VALIDATORS[last.name] = last.func
        /\ \A n \in DOMAIN last.pre \ {last.name} :
               FORMAT_VALIDATORS[n] = last.pre[n]

\* the format check of names, on the registry as it is when convert runs
LookedUpAtEvaluation(names) ==
    (/\ last.op = "SchemaString.convert"
     /\ last.template.string_format # None
     /\ last.template.string_format[1] \in names
     /\ last.value.t = "str"
     /\ SchemaString_convert(last.template, last.value,
                             View(last.value)).kind = "ok")
        => IF last.template.string_format[1] \in DOMAIN FORMAT_VALIDATORS
           THEN (last.kind = "ok")
                   <=> CallValidator(
                           FORMAT_VALIDATORS[last.template.string_format[1]],
                           last.value)
           ELSE last.kind = "ok"

\* C18 as stated: for every format name f, a SchemaString with format f
\* passes a value iff f is not in the registry when convert runs or the
\* validator then registered under f returns true, and register_format
\* leaves the entry of every other name as it was.
C18_FormatLookup ==
    /\ LookedUpAtEvaluation(FormatNames)
    /\ OthersUnchanged

\* C18 amended: the same for every format name f other than the empty
\* string.
C18_FormatLookupNamed ==
    /\ LookedUpAtEvaluation(FormatNames \ {""})
    /\ OthersUnchanged

\* "f" was registered after the template with format "f" was constructed,
\* under a validator that returns false, and the template then failed "a"
C18_Witness ==
    /\ last.op = "SchemaString.convert"
    /\ last.template.string_format = Some("f")
    /\ "f" \in DOMAIN FORMAT_VALIDATORS
    /\ FORMAT_VALIDATORS["f"] = "never"
    /\ last.value = PStr(<<"a">>)
    /\ last.kind = "ConfigError"

\* C19: every call of resolve_ref or _resolve_nested_refs ends by returning
\* a node or raising an error of the resolver, at a recursion depth bounded
\* by the size of the document: on the documents of Docs, whose calls are
\* at most 10 frames deep when they end by themselves, no call runs into the
\* recursion limit MaxDepth.
C19_Terminates ==
    last.op \in {"resolve_ref", "resolve_nested_refs",
                 "resolve_nested_refs_again"}
        => last.kind # "RecursionError"

\* two outcomes of resolve_ref are the same: the same node, or failure with
\* the same exception
SameOutcome(a, b) ==
    /\ a.kind = b.kind
    /\ a.kind = "ok" => a.val = b.val
    /\ a.kind # "ok" => a.err.code = b.err.code

\* resolve_ref(ref_uri) on a resolver just built for document root
Uncached(ref_uri, root) ==
    resolve_ref(ref_uri, [stack |-> <<>>, cache |-> EmptyCache,
                          root |-> root], 1)

\* C20: the cache is transparent.  Whatever calls came before, resolve_ref(u)
\* on the resolver has the outcome that resolve_ref(u) has on a fresh
\* resolver for the same document, for every URI u, both for the call that
\* has just been made and for the one that could be made next; and every
\* cache entry is what the uncached resolution of its URI returns.
C20_CacheTransparent ==
    /\ last.op = "resolve_ref"
           => SameOutcome(last, Uncached(last.arg, last.pre.root))
    /\ \A u \in UrisOf(root_schema) :
           SameOutcome(resolve_ref(u, State, 1), Uncached(u, root_schema))
    /\ \A u \in DOMAIN resolved_cache :
           /\ Uncached(u, root_schema).kind = "ok"
           /\ Uncached(u, root_schema).val = resolved_cache[u].val

\* a call answered from the cache, on a resolver that holds entries for other
\* URIs as well, for a document some of whose URIs do not resolve
C20_Witness ==
    /\ last.op = "resolve_ref"
    /\ last.arg \in DOMAIN last.pre.cache
    /\ Cardinality(DOMAIN last.pre.cache) > 1
    /\ last.kind = "ok"
    /\ IsDict(last.val)
    /\ \E u \in UrisOf(root_schema) : Uncached(u, root_schema).kind # "ok"

====
